---- MODULE Spec2Model ----
(***************************************************************************)
(* The download-execution engine of seqdd: the job scheduler (JobManager), *)
(* the jobs it runs, the orchestrator thread that submits them             *)
(* (DownloadManager.download_to) and the per-source pacing of queries.     *)
(***************************************************************************)
EXTENDS Integers, Sequences, FiniteSets, TLC

\* ------------------------------------------------------------------ bounds
NumJobs == 4
MaxProc == 2
MaxClock == 5
MaxDelay == 2
NumThreads == 2
MaxAcc == 3
MaxStops == 2
NumHaltJobs == 5
HaltProc == 3
MaxReg == 2
MaxAccs == 2
MaxUrls == 2
MaxBatchAccs == 6
MaxChars == 2
MaxVersion == 2
MaxThreads == 3
MaxFileNames == 2

Jobs == 1..NumJobs

\* time.time() at the start of the run: later than last_query = 0 by more than
\* any min_delay, as the epoch clock is
StartClock == MaxDelay + 1

Threads == 1..NumThreads

\* Python's None, and an integer value v, as values of one sort
None == << >>
Some(v) == << v >>

\* exit status of a worker ended by SIGKILL (Popen.kill / Process.kill)
KILLED == -9

\* ------------------------------------------------------------------ state
VARIABLES
    parents,       \* Job.parents, as the set of parent jobs of each job
    paced,         \* TRUE: can_start is the source's delay predicate; FALSE: lambda: True
    max_process,   \* JobManager.max_process
    processes,     \* JobManager.processes
    waiting,       \* JobManager.waiting
    running,       \* JobManager.running
    dependancies,  \* JobManager.dependancies: parent -> list of children
    stopped,       \* JobManager.stopped (Event)
    is_over,       \* Job.is_over
    process,       \* the worker of each job: "none", "alive" or "dead"
    exitcode,      \* the exit status of the worker, None while it has none
    sched_pc,      \* position of the scheduler thread in JobManager.run
    to_remove,     \* the local list to_remove of the promotion loop
    scan,          \* index of the promotion loop's iterator in waiting
    orch_pc,       \* position of the orchestrator thread in download_to
    cursor,        \* next job (in submission order) the orchestrator submits
    clock,         \* time.time()
    last_query,    \* DataSource.last_query
    min_delay,     \* DataSource.min_delay
    mutex,         \* DataSource.mutex: 0 when free, else the thread holding it
    true_calls,    \* history: for each call of the delay predicate that returned True,
                   \* the clock at the call and at the start() that followed
    th_pc,         \* position of each adapter thread in wait_my_turn / end_my_turn
    last_release,  \* history: the clock at the last end_my_turn, None before the first
    turn_gap,      \* history: for the last return of wait_my_turn, the time since last_release
    api_pc,        \* position of the caller in ENA.valid_accessions_on_API
    api_n,         \* len(accessions)
    api_qs,        \* query_size
    api_i,         \* the loop variable i: start of the current slice
    md5s,          \* the argument md5s of move_and_clean: None, or the set of listed files
    corrupt,       \* the files whose downloaded content has not the expected MD5
    acc_dir,       \* the staging directory of the accession: its files, None once removed
    out_dir,       \* the entry of the accession in datadir: its files, None while absent
    mv_result,     \* history: how move_and_clean ended
    stop_count,    \* history: number of calls of stop() on each job
    rc_first,      \* history: the return code of each job after its first stop()
    reg_len,       \* len(register.subregisters[c]) of each container c
    binaries,      \* DownloadManager.ncbi / .sra: None, or the names check_binaries found
    job_lists,     \* ncbi_jobs, sra_jobs, wget_jobs
    dl_pc,         \* position of download_to before it polls
    rr,            \* position inside one round of the submission loop
    submitted,     \* the jobs handed to the manager, in order
    adapter,       \* the adapter whose jobs_from_accessions was called, "none" before
    accessions,    \* its argument accessions
    datadir,       \* the entries of the directory datadir
    urls,          \* the answer of the server for the accession at each position:
                   \* len(get_ena_ftp_url(acc)), or the file name of get_filename(url)
    jobs,          \* the list it returned
    logging,       \* the lines of the manager's logger are recorded
    log,           \* the lines logged by the manager, as << keyword, job >>
    reaped,        \* history: the jobs taken out of running by the reap loop
    data_containers, \* Register.data_containers of the register that is saved: name -> data
    regfile,       \* the register file: its lines, each a sequence of symbols
    regdir,        \* the register directory: the lines of <name>.txt, None when missing
    loaded,        \* data_containers of the register that loads
    before,        \* history: loaded, as it was when the load began
    reg_pc,        \* the last operation on the registers
    sra,           \* TRUE: the paced jobs are those of SRA, can_start = SRA.src_delay_ready
    last_sra_query, \* SRA.last_sra_query, None while the attribute is not set
    threads_nb,    \* the value of threads_available()
    cli_p,         \* the value given with -p/--max-processes, None when the option is absent
    args_max_processes, \* args.max_processes
    name,          \* Job.name of each job
    log_folder,    \* JobManager.log_folder, None or Some(directory)
    log_file       \* Job.log_file of each job, as [dir, base]

schedVars == << parents, paced, max_process, processes, waiting, running,
                dependancies, stopped, is_over, process, exitcode, sched_pc,
                to_remove, scan, orch_pc, cursor >>
pacerVars == << clock, last_query, min_delay, mutex, true_calls >>
turnVars == << th_pc, last_release, turn_gap >>
apiVars == << api_pc, api_n, api_qs, api_i >>
moveVars == << md5s, corrupt, acc_dir, out_dir, mv_result >>
stopVars == << stop_count, rc_first >>
dlVars == << reg_len, binaries, job_lists, dl_pc, rr, submitted >>
adapterVars == << adapter, accessions, datadir, urls, jobs >>
logVars == << logging, log, reaped >>
regVars == << data_containers, regfile, regdir, loaded, before, reg_pc >>
srcVars == << sra, last_sra_query >>
cliVars == << threads_nb, cli_p, args_max_processes >>
nameVars == << name, log_folder, log_file >>
frontVars == << dlVars, adapterVars, logVars, regVars, srcVars, cliVars, nameVars >>
otherVars == << turnVars, apiVars, moveVars, stopVars, frontVars >>
vars == << schedVars, pacerVars, otherVars >>

\* ------------------------------------------------------------------ lists
InSeq(x, s) == \E i \in 1..Len(s) : s[i] = x

\* list.remove(x): drops the first occurrence
RECURSIVE Remove(_, _)
Remove(s, x) ==
    IF s = << >> THEN << >>
    ELSE IF Head(s) = x THEN Tail(s)
    ELSE << Head(s) >> \o Remove(Tail(s), x)

RECURSIVE RemoveAll(_, _)
RemoveAll(s, xs) ==
    IF xs = << >> THEN s ELSE RemoveAll(Remove(s, Head(xs)), Tail(xs))

\* ------------------------------------------------------------------ jobs
\* Job.get_returncode: None before start and while the worker lives
get_returncode(st, job) ==
    IF st.process[job] = "dead" THEN st.exitcode[job] ELSE None

\* a stop() that marks the job over only after the test of the worker
JobStop_late(st, job) ==
    [st EXCEPT !.is_over[job] = IF st.process[job] = "none" THEN @ ELSE TRUE,
               !.process[job] = IF @ = "alive" THEN "dead" ELSE @,
               !.exitcode[job] = IF st.process[job] = "alive" THEN Some(KILLED) ELSE @]

\* CmdLineJob.stop, on the state st of the jobs and queues (see CurState): a
\* job never started is only marked over; kill() ends a live worker and does
\* nothing to one that has ended
JobStop(st, job) ==
    [st EXCEPT !.is_over[job] = TRUE,
               !.process[job] = IF @ = "alive" THEN "dead" ELSE @,
               !.exitcode[job] = IF st.process[job] = "alive" THEN Some(KILLED) ELSE @]

\* FunctionJob.stop: the Process exists from the construction on, and is
\* killed only when is_alive() says it runs
FunctionJobStop(st, job) ==
    LET alive == st.process[job] = "alive"
    IN  [st EXCEPT !.is_over[job] = TRUE,
                   !.process[job] = IF alive THEN "dead" ELSE @,
                   !.exitcode[job] = IF alive THEN Some(KILLED) ELSE @]

\* the end of run(), "Clean the running jobs": stop() on each job not yet over
RECURSIVE StopAll(_, _, _)
StopAll(st, js, i) ==
    IF i > Len(js) THEN st
    ELSE StopAll(IF st.is_over[js[i]] THEN st ELSE JobStop(st, js[i]), js, i + 1)

\* the part of Job.is_ready that precedes the call of can_start
ParentsOver(job) == \A p \in parents[job] : is_over[p]

\* is_ready that calls can_start without a look at the parents
NotOverAndParentsOver_no_parents(job) == ~is_over[job]

NotOverAndParentsOver(job) == ~is_over[job] /\ ParentsOver(job)

\* ------------------------------------------------------------------ pacing
\* source_delay_ready that forgets to record the time of the query
SourceDelayReady_norecord(free, now, now2, lq, md) ==
    [ready |-> free /\ now - lq > md, last_query |-> lq]

\* the delay test without the mutex
SourceDelayReady_nolock(free, now, now2, lq, md) ==
    IF now - lq > md
    THEN [ready |-> TRUE, last_query |-> now2]
    ELSE [ready |-> FALSE, last_query |-> lq]

\* the delay test with the boundary counted as ready
SourceDelayReady_ge(free, now, now2, lq, md) ==
    IF free /\ now - lq >= md
    THEN [ready |-> TRUE, last_query |-> now2]
    ELSE [ready |-> FALSE, last_query |-> lq]

\* DataSource.source_delay_ready, as the value it returns and the last_query it
\* leaves; now is the first reading of the clock and now2 the second
SourceDelayReady(free, now, now2, lq, md) ==
    IF free /\ now - lq > md
    THEN [ready |-> TRUE, last_query |-> now2]
    ELSE [ready |-> FALSE, last_query |-> lq]

\* SRA.src_delay_ready, as the value it returns and the attributes it leaves:
\* the time of a call that returns True goes to last_sra_query
src_delay_ready(free, now, now2, lq, lsq, md) ==
    IF free /\ now - lq > md
    THEN [ready |-> TRUE, last_query |-> lq, last_sra_query |-> Some(now2)]
    ELSE [ready |-> FALSE, last_query |-> lq, last_sra_query |-> lsq]

\* ------------------------------------------------------------------ scheduler
CurState == [is_over |-> is_over, process |-> process, exitcode |-> exitcode,
             waiting |-> waiting, running |-> running, raised |-> FALSE,
             log |-> log, reaped |-> reaped]

\* self.logger.info / warning / error of one line about a job
LogLine(st, keyword, job) ==
    IF logging THEN [st EXCEPT !.log = Append(@, << keyword, job >>)] ELSE st

\* the two lines of a failure
LogError(st, job) == LogLine(LogLine(st, "ERROR", job), "PLEASE", job)

\* cancel_job that cancels whatever is waiting instead of the job's descendants
cancel_job_sweep(st, job) ==
    LET s1 == StopAll(st, st.waiting, 1)
        s2 == [s1 EXCEPT !.running = Remove(@, job), !.waiting = << >>]
    IN  JobStop(s2, job)

\* cancel_job between its removals and job.stop(): the worker of the job lives
\* and remaining_jobs(), len(waiting) + len(running), is 0 for another thread
Uncounted(st, job) ==
    st.process[job] = "alive" /\ Len(st.waiting) + Len(st.running) = 0

\* JobManager.cancel_job: the descendants first, then the job itself
RECURSIVE cancel_job(_, _), cancel_all(_, _, _)
cancel_job(st, job) ==
    LET s1 == cancel_all(LogLine(st, "CANCEL", job), dependancies[job], 1)
        s2 == [s1 EXCEPT !.running = Remove(@, job), !.waiting = Remove(@, job)]
    IN  JobStop(s2, job)
cancel_all(st, descs, i) ==
    IF i > Len(descs) THEN st
    ELSE cancel_all(cancel_job(st, descs[i]), descs, i + 1)

\* some instant of cancel_job(st, job) is Uncounted: inside the cancellation
\* of a descendant, or after the removals of the job itself
RECURSIVE cancel_gap(_, _), cancel_all_gap(_, _, _)
cancel_gap(st, job) ==
    LET s0 == LogLine(st, "CANCEL", job)
        s1 == cancel_all(s0, dependancies[job], 1)
        s2 == [s1 EXCEPT !.running = Remove(@, job), !.waiting = Remove(@, job)]
    IN  cancel_all_gap(s0, dependancies[job], 1) \/ Uncounted(s2, job)
cancel_all_gap(st, descs, i) ==
    IF i > Len(descs) THEN FALSE
    ELSE \/ cancel_gap(st, descs[i])
         \/ cancel_all_gap(cancel_job(st, descs[i]), descs, i + 1)

\* first loop of a tick: is_alive() on every running job; a dead one is over
DeadRunning == SelectSeq(running, LAMBDA j : process[j] = "dead")

AfterPoll ==
    [CurState EXCEPT !.is_over =
        [j \in DOMAIN is_over |-> is_over[j] \/ (InSeq(j, running) /\ process[j] = "dead")]]

\* the reap of one job without the flag notified
ReapOne_renotify(st, job) ==
    LET s1 == [st EXCEPT !.running = Remove(@, job),
                         !.reaped = IF logging THEN @ \cup {job} ELSE @]
        s2 == IF get_returncode(s1, job) # Some(0)
              THEN cancel_job(LogError(s1, job), job) ELSE s1
    IN  IF get_returncode(s2, job) = Some(0) THEN LogLine(s2, "DONE", job)
        ELSE LogError(s2, job)

\* second loop of a tick, on one finished job: out of running, its failure
\* logged and the job cancelled with its descendants when its return code is
\* not 0, DONE logged when it is 0
ReapOne(st, job) ==
    LET s1 == [st EXCEPT !.running = Remove(@, job),
                         !.reaped = IF logging THEN @ \cup {job} ELSE @]
        notified == get_returncode(s1, job) # Some(0)
        s2 == IF notified THEN cancel_job(LogError(s1, job), job) ELSE s1
    IN  IF get_returncode(s2, job) = Some(0) THEN LogLine(s2, "DONE", job)
        ELSE IF ~notified THEN LogError(s2, job)
        ELSE s2

\* the whole second loop; running.remove(job) raises ValueError when an earlier
\* cancellation of the same tick took the job out of running, which ends the
\* loop (and the thread) with what was done so far
RECURSIVE ReapAll(_, _, _)
ReapAll(st, dead, i) ==
    IF i > Len(dead) THEN st
    ELSE IF ~InSeq(dead[i], st.running) THEN [st EXCEPT !.raised = TRUE]
    ELSE ReapAll(ReapOne(st, dead[i]), dead, i + 1)

\* some instant of the second loop is Uncounted
RECURSIVE ReapGap(_, _, _)
ReapGap(st, dead, i) ==
    IF i > Len(dead) \/ ~InSeq(dead[i], st.running) THEN FALSE
    ELSE LET s1 == [st EXCEPT !.running = Remove(@, dead[i])]
         IN  \/ /\ get_returncode(s1, dead[i]) # Some(0)
                /\ cancel_gap(LogError(s1, dead[i]), dead[i])
             \/ ReapGap(ReapOne(st, dead[i]), dead, i + 1)

\* the cap test off by one
MaxJobsReached_gt == Len(running) > max_process

\* "Max jobs reached": the test that ends the promotion loop
MaxJobsReached == Len(running) >= max_process

\* the scan with "break" in the place of "continue": a job that is not ready ends it
ScanEnds_on_defer ==
    \/ scan > Len(waiting)
    \/ MaxJobsReached
    \/ ~NotOverAndParentsOver(waiting[scan])

\* "for job in self.waiting" is over: the list is exhausted, or the break
ScanEnds == scan > Len(waiting) \/ MaxJobsReached

\* Thread.start() of the JobManager
SchedStart ==
    /\ orch_pc = "start"
    /\ sched_pc = "new"
    /\ sched_pc' = "top"
    /\ orch_pc' = "submit"
    /\ UNCHANGED << parents, paced, max_process, processes, waiting, running,
                    dependancies, stopped, is_over, process, exitcode,
                    to_remove, scan, cursor, pacerVars, otherVars >>

\* one tick, first half: the scan of running and the removal of finished jobs
SchedReap ==
    /\ sched_pc = "top"
    /\ ~stopped
    /\ LET st == ReapAll(AfterPoll, DeadRunning, 1)
       IN  /\ sched_pc' = IF st.raised THEN "crashed" ELSE "promote"
           /\ is_over' = st.is_over
           /\ process' = st.process
           /\ exitcode' = st.exitcode
           /\ waiting' = st.waiting
           /\ running' = st.running
           /\ log' = st.log
           /\ reaped' = st.reaped
    /\ to_remove' = << >>
    /\ scan' = 1
    /\ UNCHANGED << parents, paced, max_process, processes, dependancies,
                    stopped, orch_pc, cursor, pacerVars, turnVars, apiVars,
                    moveVars, stopVars, dlVars, adapterVars, regVars, srcVars, cliVars, nameVars, logging >>

\* the same tick while the orchestrator polls: "while manager.remaining_jobs()
\* > 0" reads 0 between the removals of a cancel_job and its job.stop(), and
\* manager.stop() follows; run() tests stopped only at the top of its loop
SchedReapPolled ==
    /\ sched_pc = "top"
    /\ ~stopped
    /\ orch_pc = "poll"
    /\ ReapGap(AfterPoll, DeadRunning, 1)
    /\ LET st == ReapAll(AfterPoll, DeadRunning, 1)
       IN  /\ sched_pc' = IF st.raised THEN "crashed" ELSE "promote"
           /\ is_over' = st.is_over
           /\ process' = st.process
           /\ exitcode' = st.exitcode
           /\ waiting' = st.waiting
           /\ running' = st.running
           /\ log' = st.log
           /\ reaped' = st.reaped
    /\ to_remove' = << >>
    /\ scan' = 1
    /\ stopped' = TRUE
    /\ orch_pc' = "join"
    /\ UNCHANGED << parents, paced, max_process, processes, dependancies,
                    cursor, pacerVars, turnVars, apiVars,
                    moveVars, stopVars, dlVars, adapterVars, regVars, srcVars, cliVars, nameVars, logging >>

\* one tick, second half: one iteration of "for job in self.waiting"
SchedPromote ==
    /\ sched_pc = "promote"
    /\ IF ScanEnds
       THEN \* end of the loop: "for job in to_remove: self.waiting.remove(job)"
            /\ waiting' = RemoveAll(waiting, to_remove)
            /\ sched_pc' = "top"
            /\ UNCHANGED << running, process, to_remove, scan, pacerVars, last_sra_query, log >>
       ELSE LET job == waiting[scan]
            IN  /\ scan' = scan + 1
                /\ sched_pc' = "promote"
                /\ UNCHANGED waiting
                /\ IF ~NotOverAndParentsOver(job)
                   THEN UNCHANGED << running, process, to_remove, pacerVars, last_sra_query, log >>
                   ELSE IF ~paced[job]
                   THEN /\ to_remove' = Append(to_remove, job)
                        /\ running' = Append(running, job)
                        /\ log' = LogLine(CurState, "START", job).log
                        /\ process' = [process EXCEPT ![job] = "alive"]
                        /\ UNCHANGED << pacerVars, last_sra_query >>
                   ELSE \E d \in 0..1 :
                        LET r == IF sra
                                 THEN src_delay_ready(mutex = 0, clock, clock + d,
                                                      last_query, last_sra_query, min_delay)
                                 ELSE SourceDelayReady(mutex = 0, clock, clock + d,
                                                       last_query, min_delay)
                        IN  /\ clock + d <= StartClock + MaxClock
                            /\ clock' = clock + d
                            /\ last_query' = r.last_query
                            /\ last_sra_query' = IF sra THEN r.last_sra_query ELSE last_sra_query
                            /\ UNCHANGED << min_delay, mutex >>
                            /\ IF r.ready
                               THEN /\ true_calls' = Append(true_calls, << clock, clock + d >>)
                                    /\ to_remove' = Append(to_remove, job)
                                    /\ running' = Append(running, job)
                                    /\ log' = LogLine(CurState, "START", job).log
                                    /\ process' = [process EXCEPT ![job] = "alive"]
                               ELSE UNCHANGED << true_calls, to_remove, running, process, log >>
    /\ UNCHANGED << parents, paced, max_process, processes, dependancies,
                    stopped, is_over, exitcode, orch_pc, cursor, turnVars, apiVars,
                    moveVars, stopVars, dlVars, adapterVars, regVars, sra, cliVars, nameVars, logging, reaped >>

\* the loop has seen stopped: the running jobs are stopped and the thread ends
SchedDrain ==
    /\ sched_pc = "top"
    /\ stopped
    /\ LET st == StopAll(CurState, running, 1)
       IN  /\ is_over' = st.is_over
           /\ process' = st.process
           /\ exitcode' = st.exitcode
    /\ sched_pc' = "exited"
    /\ UNCHANGED << parents, paced, max_process, processes, waiting, running,
                    dependancies, stopped, to_remove, scan, orch_pc, cursor,
                    pacerVars, otherVars >>

\* a worker ends by itself, with exit status 0 or 1
ProcessExit(j, code) ==
    /\ process[j] = "alive"
    /\ process' = [process EXCEPT ![j] = "dead"]
    /\ exitcode' = [exitcode EXCEPT ![j] = Some(code)]
    /\ UNCHANGED << parents, paced, max_process, processes, waiting, running,
                    dependancies, stopped, is_over, sched_pc, to_remove,
                    scan, orch_pc, cursor, pacerVars, turnVars, apiVars, stopVars,
                    frontVars >>

WorkerExit ==
    \E j \in DOMAIN process, code \in {0, 1} : ProcessExit(j, code) /\ UNCHANGED moveVars

\* ------------------------------------------------------------------ orchestrator
\* Job.__init__: log_file is f'{name}.log', a file of the working directory
LogFileOf(n) == [dir |-> "", base |-> n]

\* add_job: with a log_folder the log file is join(log_folder, basename(log_file))
add_job_log(lf, folder) ==
    IF folder # None THEN [dir |-> folder[1], base |-> lf.base] ELSE lf

\* JobManager.add_job, first part: the log file is routed and the job is listed
\* under each of its parents
AddJobDeps ==
    /\ orch_pc = "submit"
    /\ cursor <= Len(parents)
    /\ log_file' = [log_file EXCEPT ![cursor] = add_job_log(log_file[cursor], log_folder)]
    /\ dependancies' = [p \in DOMAIN dependancies |->
           IF p \in parents[cursor] THEN Append(dependancies[p], cursor)
           ELSE dependancies[p]]
    /\ orch_pc' = "queue"
    /\ UNCHANGED << parents, paced, max_process, processes, waiting, running,
                    stopped, is_over, process, exitcode, sched_pc, to_remove,
                    scan, cursor, pacerVars, turnVars, apiVars, moveVars,
                    stopVars, dlVars, adapterVars, logVars, regVars, srcVars,
                    cliVars, name, log_folder >>

\* add_job that puts the job at the head of waiting
AddJobQueue_front ==
    /\ orch_pc = "queue"
    /\ waiting' = << cursor >> \o waiting
    /\ processes' = Append(processes, cursor)
    /\ cursor' = cursor + 1
    /\ orch_pc' = "submit"
    /\ UNCHANGED << parents, paced, max_process, running, dependancies,
                    stopped, is_over, process, exitcode, sched_pc, to_remove,
                    scan, pacerVars, otherVars >>

\* JobManager.add_job, second part: the job is queued
AddJobQueue ==
    /\ orch_pc = "queue"
    /\ waiting' = Append(waiting, cursor)
    /\ processes' = Append(processes, cursor)
    /\ cursor' = cursor + 1
    /\ orch_pc' = "submit"
    /\ UNCHANGED << parents, paced, max_process, running, dependancies,
                    stopped, is_over, process, exitcode, sched_pc, to_remove,
                    scan, pacerVars, otherVars >>

\* JobManager.remaining_jobs
remaining_jobs == Len(waiting) + Len(running)

\* every job is submitted: the orchestrator goes on to poll remaining_jobs()
SubmitDone ==
    /\ orch_pc = "submit"
    /\ cursor > Len(parents)
    /\ orch_pc' = "poll"
    /\ UNCHANGED << parents, paced, max_process, processes, waiting, running,
                    dependancies, stopped, is_over, process, exitcode, sched_pc,
                    to_remove, scan, cursor, pacerVars, otherVars >>

\* "while manager.remaining_jobs() > 0: sleep" ends; manager.stop()
PollStop ==
    /\ orch_pc = "poll"
    /\ remaining_jobs = 0
    /\ stopped' = TRUE
    /\ orch_pc' = "join"
    /\ UNCHANGED << parents, paced, max_process, processes, waiting, running,
                    dependancies, is_over, process, exitcode, sched_pc,
                    to_remove, scan, cursor, pacerVars, otherVars >>

\* manager.join() returns once the scheduler thread has ended
OrchJoin ==
    /\ orch_pc = "join"
    /\ sched_pc \in {"exited", "crashed"}
    /\ orch_pc' = "done"
    /\ UNCHANGED << parents, paced, max_process, processes, waiting, running,
                    dependancies, stopped, is_over, process, exitcode, sched_pc,
                    to_remove, scan, cursor, pacerVars, otherVars >>

\* ------------------------------------------------------------------ specification
\* no adapter thread is querying
InitTurn ==
    /\ th_pc = [t \in Threads |-> "idle"]
    /\ last_release = None
    /\ turn_gap = None

\* no accession is being validated
InitApiIdle ==
    /\ api_pc = "idle"
    /\ api_n = 0
    /\ api_qs = 1
    /\ api_i = 0

\* no accession is staged
InitNoFiles ==
    /\ md5s = None
    /\ corrupt = {}
    /\ acc_dir = None
    /\ out_dir = None
    /\ mv_result = "none"

\* stop() has not been called
InitStops ==
    /\ stop_count = [j \in Jobs |-> 0]
    /\ rc_first = [j \in Jobs |-> None]

\* the fixed order of the containers in download_to
Containers == << "ncbi", "sra", "wget" >>

ContainerSet == { Containers[k] : k \in 1..Len(Containers) }

\* download_to has not been called
InitNoDownload ==
    /\ reg_len = [c \in ContainerSet |-> 0]
    /\ binaries = [c \in ContainerSet |-> None]
    /\ job_lists = [c \in ContainerSet |-> << >>]
    /\ dl_pc = "idle"
    /\ rr = 0
    /\ submitted = << >>

\* no jobs_from_accessions has been called
InitNoCall ==
    /\ adapter = "none"
    /\ accessions = << >>
    /\ datadir = {}
    /\ urls = << >>
    /\ jobs = << >>

\* the lines of the logger are not recorded
InitNoLog ==
    /\ logging = FALSE
    /\ log = << >>
    /\ reaped = {}

\* the names of the containers, in the order of Register.data_containers
RegNames == << << "readarchives" >>, << "logan" >> >>

RegNameSet == { RegNames[k] : k \in 1..Len(RegNames) }

\* no register is in use
InitNoRegister ==
    /\ data_containers = [n \in RegNameSet |-> {}]
    /\ regfile = << >>
    /\ regdir = [n \in RegNameSet |-> None]
    /\ loaded = [n \in RegNameSet |-> {}]
    /\ before = [n \in RegNameSet |-> {}]
    /\ reg_pc = "idle"

\* the paced jobs are those of a source that keeps DataSource.source_delay_ready
InitBaseSource ==
    /\ sra = FALSE
    /\ last_sra_query = None

\* parse_cmd, the value of args.max_processes: the option, or its default
parse_cmd(p, threads) == IF p = None THEN threads \div 2 ELSE p[1]

\* on_download, the value it passes to download_to as max_process
on_download(max_processes, threads) ==
    IF max_processes > threads THEN threads ELSE max_processes

\* on_download has run with -p max_process on a machine with as many threads
InitAfterCli ==
    /\ threads_nb = max_process
    /\ cli_p = Some(max_process)
    /\ args_max_processes = max_process

\* each job was given a name of its own, and the manager has no log_folder
InitNamed ==
    /\ name = [j \in Jobs |-> << "job", j >>]
    /\ log_folder = None
    /\ log_file = [j \in Jobs |-> LogFileOf(name[j])]

InitFrontIdle ==
    InitNoDownload /\ InitNoCall /\ InitNoLog /\ InitNoRegister /\ InitBaseSource /\ InitAfterCli /\ InitNamed

\* every DAG whose submission order is topological
DAGs == { f \in [Jobs -> SUBSET Jobs] : \A j \in Jobs : f[j] \subseteq 1..(j - 1) }

InitSched ==
    /\ max_process \in 1..MaxProc
    /\ processes = << >>
    /\ waiting = << >>
    /\ running = << >>
    /\ dependancies = [j \in Jobs |-> << >>]
    /\ stopped = FALSE
    /\ is_over = [j \in Jobs |-> FALSE]
    /\ process = [j \in Jobs |-> "none"]
    /\ exitcode = [j \in Jobs |-> None]
    /\ sched_pc = "new"
    /\ to_remove = << >>
    /\ scan = 1
    /\ orch_pc = "start"
    /\ cursor = 1

Init ==
    /\ InitSched
    /\ parents \in DAGs
    /\ paced = [j \in Jobs |-> FALSE]
    /\ clock = 0
    /\ last_query = 0
    /\ min_delay = 0
    /\ mutex = 0
    /\ true_calls = << >>
    /\ InitTurn
    /\ InitApiIdle
    /\ InitNoFiles
    /\ InitStops
    /\ InitFrontIdle

Next ==
    \/ SchedStart
    \/ SchedReap
    \/ SchedPromote
    \/ SchedDrain
    \/ WorkerExit
    \/ AddJobDeps
    \/ AddJobQueue
    \/ SubmitDone
    \/ PollStop
    \/ OrchJoin

Spec == Init /\ [][Next]_vars

\* ------------------------------------------------------------------ command line
\* on_download: args.max_processes is clamped to threads_available() and
\* download_to builds the JobManager with it
OnDownload ==
    /\ orch_pc = "cli"
    /\ args_max_processes' = on_download(args_max_processes, threads_nb)
    /\ max_process' = on_download(args_max_processes, threads_nb)
    /\ orch_pc' = "start"
    /\ UNCHANGED << parents, paced, processes, waiting, running, dependancies,
                    stopped, is_over, process, exitcode, sched_pc, to_remove,
                    scan, cursor, pacerVars, turnVars, apiVars, moveVars,
                    stopVars, dlVars, adapterVars, logVars, regVars, srcVars,
                    threads_nb, cli_p, nameVars >>

\* "seqdd download" on a machine with threads_nb threads, parse_cmd done;
\* the JobManager does not exist yet
InitCap ==
    /\ max_process = None
    /\ processes = << >>
    /\ waiting = << >>
    /\ running = << >>
    /\ dependancies = [j \in Jobs |-> << >>]
    /\ stopped = FALSE
    /\ is_over = [j \in Jobs |-> FALSE]
    /\ process = [j \in Jobs |-> "none"]
    /\ exitcode = [j \in Jobs |-> None]
    /\ sched_pc = "new"
    /\ to_remove = << >>
    /\ scan = 1
    /\ orch_pc = "cli"
    /\ cursor = 1
    /\ parents = [j \in Jobs |-> {}]
    /\ paced = [j \in Jobs |-> FALSE]
    /\ clock = 0
    /\ last_query = 0
    /\ min_delay = 0
    /\ mutex = 0
    /\ true_calls = << >>
    /\ InitTurn
    /\ InitApiIdle
    /\ InitNoFiles
    /\ InitStops
    /\ InitNoDownload
    /\ InitNoCall
    /\ InitNoLog
    /\ InitNoRegister
    /\ InitBaseSource
    /\ threads_nb \in 1..MaxThreads
    /\ cli_p \in {None} \cup { Some(n) : n \in 0..(MaxThreads + 1) }
    /\ args_max_processes = parse_cmd(cli_p, threads_nb)
    /\ InitNamed

NextCap == OnDownload \/ Next

SpecCap == InitCap /\ [][NextCap]_vars

\* ------------------------------------------------------------------ paced jobs
\* time passes
ClockTick ==
    /\ clock < StartClock + MaxClock
    /\ clock' = clock + 1
    /\ UNCHANGED << schedVars, last_query, min_delay, mutex, true_calls, otherVars >>

\* independent jobs of one source, each with can_start = source_delay_ready
InitPace ==
    /\ InitSched
    /\ parents = [j \in Jobs |-> {}]
    /\ paced = [j \in Jobs |-> TRUE]
    /\ clock = StartClock
    /\ last_query = 0
    /\ min_delay \in 0..MaxDelay
    /\ mutex = 0
    /\ true_calls = << >>
    /\ InitTurn
    /\ InitApiIdle
    /\ InitNoFiles
    /\ InitStops
    /\ InitFrontIdle

NextPace == Next \/ ClockTick

SpecPace == InitPace /\ [][NextPace]_vars

\* the jobs of SRA.jobs_from_accessions for one SRR accession, in the order of
\* the list: prefetch, fasterq-dump, compress, clean
SraParents == << {}, {1}, {1, 2}, {2, 3} >>

\* prefetch and fasterq-dump have can_start = self.src_delay_ready
SraPaced == << TRUE, TRUE, FALSE, FALSE >>

\* one SRR accession is downloaded; min_delay is the 0.5 s of SRA.__init__, as
\* a positive number of clock units
InitSra ==
    /\ InitSched
    /\ parents = SraParents
    /\ paced = SraPaced
    /\ clock = StartClock
    /\ last_query = 0
    /\ min_delay \in 1..MaxDelay
    /\ mutex = 0
    /\ true_calls = << >>
    /\ InitTurn
    /\ InitApiIdle
    /\ InitNoFiles
    /\ InitStops
    /\ InitNoDownload
    /\ InitNoCall
    /\ InitNoLog
    /\ InitNoRegister
    /\ sra = TRUE
    /\ last_sra_query = None
    /\ InitAfterCli
    /\ InitNamed

SpecSra == InitSra /\ [][NextPace]_vars

\* jobs that are deferred for either reason: job 2 waits for its parent, jobs
\* 1 and 3 have can_start = source_delay_ready, job 4 is always ready
DeferParents == << {}, {1}, {}, {} >>

DeferPaced == << TRUE, FALSE, TRUE, FALSE >>

InitDefer ==
    /\ InitSched
    /\ parents = DeferParents
    /\ paced = DeferPaced
    /\ clock = StartClock
    /\ last_query = 0
    /\ min_delay \in 0..MaxDelay
    /\ mutex = 0
    /\ true_calls = << >>
    /\ InitTurn
    /\ InitApiIdle
    /\ InitNoFiles
    /\ InitStops
    /\ InitFrontIdle

SpecDefer == InitDefer /\ [][NextPace]_vars

\* ------------------------------------------------------------------ synchronous queries
\* wait_my_turn, one turn of "while not self.source_delay_ready(): sleep"
WaitMyTurnLoop(t) ==
    /\ th_pc[t] \in {"idle", "wait"}
    /\ \E d \in 0..1 :
         LET r == SourceDelayReady(mutex = 0, clock, clock + d, last_query, min_delay)
         IN  /\ clock + d <= StartClock + MaxClock
             /\ clock' = clock + d
             /\ last_query' = r.last_query
             /\ th_pc' = [th_pc EXCEPT ![t] = IF r.ready THEN "acquire" ELSE "wait"]
    /\ UNCHANGED << schedVars, min_delay, mutex, true_calls, last_release, turn_gap, apiVars, moveVars, stopVars, frontVars >>

\* wait_my_turn, "self.mutex.acquire()" and the return
WaitMyTurnAcquire(t) ==
    /\ th_pc[t] = "acquire"
    /\ mutex = 0
    /\ mutex' = t
    /\ th_pc' = [th_pc EXCEPT ![t] = "turn"]
    /\ turn_gap' = IF last_release = None THEN None ELSE Some(clock - last_release[1])
    /\ UNCHANGED << schedVars, clock, last_query, min_delay, true_calls, last_release, apiVars, moveVars, stopVars, frontVars >>

\* end_my_turn
EndMyTurn(t) ==
    /\ th_pc[t] = "turn"
    /\ last_query' = clock
    /\ mutex' = 0
    /\ th_pc' = [th_pc EXCEPT ![t] = "idle"]
    /\ last_release' = Some(clock)
    /\ UNCHANGED << schedVars, clock, min_delay, true_calls, turn_gap, apiVars, moveVars, stopVars, frontVars >>

\* threads that query one source in turn, the scheduler not yet started
InitTurns ==
    /\ InitSched
    /\ parents = [j \in Jobs |-> {}]
    /\ paced = [j \in Jobs |-> TRUE]
    /\ clock = StartClock
    /\ last_query = 0
    /\ min_delay \in 0..MaxDelay
    /\ mutex = 0
    /\ true_calls = << >>
    /\ InitTurn
    /\ InitApiIdle
    /\ InitNoFiles
    /\ InitStops
    /\ InitFrontIdle

NextTurns ==
    \/ \E t \in Threads : WaitMyTurnLoop(t)
    \/ \E t \in Threads : WaitMyTurnAcquire(t)
    \/ \E t \in Threads : EndMyTurn(t)
    \/ ClockTick

SpecTurns == InitTurns /\ [][NextTurns]_vars

\* two paced jobs of a source are scheduled while a thread queries the same
\* source, turn after turn
InitQuery ==
    /\ InitSched
    /\ parents = << {}, {} >>
    /\ paced = << TRUE, TRUE >>
    /\ clock = StartClock
    /\ last_query = 0
    /\ min_delay \in 0..MaxDelay
    /\ mutex = 0
    /\ true_calls = << >>
    /\ InitTurn
    /\ InitApiIdle
    /\ InitNoFiles
    /\ InitStops
    /\ InitFrontIdle

\* the thread that makes the synchronous queries
QueryThread == 1

NextQuery ==
    \/ Next
    \/ WaitMyTurnLoop(QueryThread)
    \/ WaitMyTurnAcquire(QueryThread)
    \/ EndMyTurn(QueryThread)
    \/ ClockTick

SpecQuery == InitQuery /\ [][NextQuery]_vars

\* ------------------------------------------------------------------ accession validation
\* the thread that calls valid_accessions_on_API, as a holder of the mutex
ApiThread == 1

\* "for i in range(0, len(accessions), query_size)": the next position
ApiAfterSlice(i) == IF i + api_qs < api_n THEN "wait" ELSE "returned"

\* the call: the loop is entered when there is an accession
ApiCall ==
    /\ api_pc = "idle"
    /\ api_i' = 0
    /\ api_pc' = IF 0 < api_n THEN "wait" ELSE "returned"
    /\ UNCHANGED << schedVars, pacerVars, turnVars, moveVars, stopVars, frontVars,
                    api_n, api_qs >>

\* ENA.wait_my_turn, one turn of "while not self.ena_delay_ready(): sleep"
ApiWait ==
    /\ api_pc = "wait"
    /\ \E d \in 0..1 :
         LET r == SourceDelayReady(mutex = 0, clock, clock + d, last_query, min_delay)
         IN  /\ clock + d <= StartClock + MaxClock
             /\ clock' = clock + d
             /\ last_query' = r.last_query
             /\ api_pc' = IF r.ready THEN "acquire" ELSE "wait"
    /\ UNCHANGED << schedVars, min_delay, mutex, true_calls, turnVars, moveVars, stopVars,
                    frontVars, api_n, api_qs, api_i >>

\* ENA.wait_my_turn, "self.mutex.acquire()": blocks while the mutex is held
ApiAcquire ==
    /\ api_pc = "acquire"
    /\ mutex = 0
    /\ mutex' = ApiThread
    /\ api_pc' = "query"
    /\ UNCHANGED << schedVars, clock, last_query, min_delay, true_calls, turnVars,
                    moveVars, stopVars, frontVars, api_n, api_qs, api_i >>

\* the curl query of one slice and what follows it: on a return code other
\* than 0 the loop continues at once, else last_ena_query is set and the mutex
\* released
ApiQuery ==
    /\ api_pc = "query"
    /\ \E returncode \in {0, 6} :
         IF returncode # 0
         THEN UNCHANGED << last_query, mutex >>
         ELSE last_query' = clock /\ mutex' = 0
    /\ api_i' = api_i + api_qs
    /\ api_pc' = ApiAfterSlice(api_i)
    /\ UNCHANGED << schedVars, clock, min_delay, true_calls, turnVars, moveVars, stopVars,
                    frontVars, api_n, api_qs >>

InitApi ==
    /\ InitSched
    /\ parents = [j \in Jobs |-> {}]
    /\ paced = [j \in Jobs |-> TRUE]
    /\ clock = StartClock
    /\ last_query = 0
    /\ min_delay \in 0..MaxDelay
    /\ mutex = 0
    /\ true_calls = << >>
    /\ InitTurn
    /\ InitNoFiles
    /\ InitStops
    /\ InitFrontIdle
    /\ api_pc = "idle"
    /\ api_n \in 0..MaxAcc
    /\ api_qs \in 1..MaxAcc
    /\ api_i = 0

NextApi == ApiCall \/ ApiWait \/ ApiAcquire \/ ApiQuery \/ ClockTick

SpecApi == InitApi /\ [][NextApi]_vars

\* ------------------------------------------------------------------ ENA files
\* jobs_from_accessions, for one accession: one curl job per file, then the
\* FunctionJob of move_and_clean with the curl jobs as parents; the job that
\* remains is submitted with the move job as its parent
Files == 1..(NumJobs - 2)
MoveJob == NumJobs - 1

EnaParents ==
    [j \in Jobs |-> IF j \in Files THEN {}
                    ELSE IF j = MoveJob THEN Files ELSE {MoveJob}]

\* ENA.move_and_clean(accession_dir, outdir, md5s) on the two directories, as
\* the directories it leaves and the way it ends.  The listed files are checked
\* in the order of the dict: md5sum prints nothing for a file that is absent
\* (the [0] of the split raises IndexError); on a hash that differs the
\* staging directory is removed and the function returns
move_and_clean(m, bad, dir, out) ==
    LET staged == IF dir = None THEN {} ELSE dir[1]
        listed == IF m = None THEN {} ELSE m[1]
        failing == { f \in listed : f \notin staged \/ f \in bad }
        first == CHOOSE f \in failing : \A g \in failing : f <= g
        filenames == IF m = None THEN staged ELSE listed
        made == IF out = None THEN {} ELSE out[1]
    IN  IF failing # {}
        THEN IF first \notin staged
             THEN [acc_dir |-> dir, out_dir |-> out, result |-> "raised"]
             ELSE [acc_dir |-> None, out_dir |-> out, result |-> "mismatch"]
        ELSE IF dir = None
        THEN [acc_dir |-> dir, out_dir |-> Some(made), result |-> "raised"]
        ELSE [acc_dir |-> None, out_dir |-> Some(made \cup filenames), result |-> "moved"]

\* a curl worker ends: with status 0 its file is in the staging directory
CurlExit ==
    \E f \in Files, code \in {0, 1} :
        /\ ProcessExit(f, code)
        /\ acc_dir' = IF code = 0 /\ acc_dir # None THEN Some(acc_dir[1] \cup {f}) ELSE acc_dir
        /\ UNCHANGED << md5s, corrupt, out_dir, mv_result >>

\* FunctionJob.wrapping_function runs move_and_clean in the worker: an
\* exception is raised again and the worker ends with status 1, else with 0
MoveExit ==
    LET r == move_and_clean(md5s, corrupt, acc_dir, out_dir)
    IN  /\ ProcessExit(MoveJob, IF r.result = "raised" THEN 1 ELSE 0)
        /\ acc_dir' = r.acc_dir
        /\ out_dir' = r.out_dir
        /\ mv_result' = r.result
        /\ UNCHANGED << md5s, corrupt >>

\* the worker of a job that follows the move ends
FollowExit ==
    \E j \in Jobs \ (Files \cup {MoveJob}), code \in {0, 1} :
        ProcessExit(j, code) /\ UNCHANGED moveVars

\* makedirs(tmp_dir) has created the staging directory, empty; the delay
\* between the starts is left out (can_start always true)
InitMove ==
    /\ InitSched
    /\ parents = EnaParents
    /\ paced = [j \in Jobs |-> FALSE]
    /\ clock = StartClock
    /\ last_query = 0
    /\ min_delay = 0
    /\ mutex = 0
    /\ true_calls = << >>
    /\ InitTurn
    /\ InitApiIdle
    /\ InitStops
    /\ InitFrontIdle
    /\ md5s \in {None} \cup { Some(S) : S \in SUBSET Files }
    /\ corrupt \in SUBSET Files
    /\ acc_dir = Some({})
    /\ out_dir = None
    /\ mv_result = "none"

NextMove ==
    \/ SchedStart
    \/ SchedReap
    \/ SchedPromote
    \/ SchedDrain
    \/ AddJobDeps
    \/ AddJobQueue
    \/ SubmitDone
    \/ PollStop
    \/ OrchJoin
    \/ CurlExit
    \/ MoveExit
    \/ FollowExit

SpecMove == InitMove /\ [][NextMove]_vars

\* the jobs of one ENA accession with two files, the files themselves left
\* out: every job has can_start = source_delay_ready, the move job has the
\* curl jobs as parents
InitPacedDag ==
    /\ InitSched
    /\ parents = EnaParents
    /\ paced = [j \in Jobs |-> TRUE]
    /\ clock = StartClock
    /\ last_query = 0
    /\ min_delay \in 0..MaxDelay
    /\ mutex = 0
    /\ true_calls = << >>
    /\ InitTurn
    /\ InitApiIdle
    /\ InitNoFiles
    /\ InitStops
    /\ InitFrontIdle

SpecPacedDag == InitPacedDag /\ [][NextPace]_vars

\* ------------------------------------------------------------------ stop()
\* a CmdLineJob and a FunctionJob, taken through their lifecycle
StopJobs == {1, MoveJob}

StopOf(st, job) == IF job = MoveJob THEN FunctionJobStop(st, job) ELSE JobStop(st, job)

\* start(), which the scheduler calls on a job that is_ready(): one not over
StartJob(j) ==
    /\ ~is_over[j]
    /\ process[j] = "none"
    /\ process' = [process EXCEPT ![j] = "alive"]
    /\ UNCHANGED << parents, paced, max_process, processes, waiting, running,
                    dependancies, stopped, is_over, exitcode, sched_pc, to_remove,
                    scan, orch_pc, cursor, pacerVars, otherVars >>

\* is_alive() on a started job: a worker that has ended marks the job over
PollJob(j) ==
    /\ process[j] = "dead"
    /\ ~is_over[j]
    /\ is_over' = [is_over EXCEPT ![j] = TRUE]
    /\ UNCHANGED << parents, paced, max_process, processes, waiting, running,
                    dependancies, stopped, process, exitcode, sched_pc, to_remove,
                    scan, orch_pc, cursor, pacerVars, otherVars >>

\* a call of stop(), counted; the return code that follows the first is kept
StopJob(j) ==
    /\ stop_count[j] < MaxStops
    /\ LET st == StopOf(CurState, j)
       IN  /\ is_over' = st.is_over
           /\ process' = st.process
           /\ exitcode' = st.exitcode
           /\ rc_first' = IF stop_count[j] = 0
                          THEN [rc_first EXCEPT ![j] = get_returncode(st, j)]
                          ELSE rc_first
    /\ stop_count' = [stop_count EXCEPT ![j] = @ + 1]
    /\ UNCHANGED << parents, paced, max_process, processes, waiting, running,
                    dependancies, stopped, sched_pc, to_remove, scan, orch_pc,
                    cursor, pacerVars, turnVars, apiVars, moveVars, frontVars >>

NextStop ==
    \/ \E j \in StopJobs : StartJob(j)
    \/ WorkerExit
    \/ \E j \in StopJobs : PollJob(j)
    \/ \E j \in StopJobs : StopJob(j)

\* jobs without parents, none submitted
InitStop == Init /\ parents = [j \in Jobs |-> {}]

SpecStop == InitStop /\ [][NextStop]_vars

\* ------------------------------------------------------------------ stop() at any time
\* two jobs without parents, a job that waits for both, a job that waits for
\* that one, and jobs without parents after them
HaltJobs == 1..NumHaltJobs

HaltParents ==
    [j \in HaltJobs |-> CASE j = 3 -> {1, 2} [] j = 4 -> {3} [] OTHER -> {}]

\* JobManager.stop, called by any thread at any time
ManagerStop ==
    /\ ~stopped
    /\ stopped' = TRUE
    /\ UNCHANGED << parents, paced, max_process, processes, waiting, running,
                    dependancies, is_over, process, exitcode, sched_pc,
                    to_remove, scan, orch_pc, cursor, pacerVars, otherVars >>

InitHalt ==
    /\ max_process \in 1..HaltProc
    /\ processes = << >>
    /\ waiting = << >>
    /\ running = << >>
    /\ dependancies = [j \in HaltJobs |-> << >>]
    /\ stopped = FALSE
    /\ is_over = [j \in HaltJobs |-> FALSE]
    /\ process = [j \in HaltJobs |-> "none"]
    /\ exitcode = [j \in HaltJobs |-> None]
    /\ sched_pc = "new"
    /\ to_remove = << >>
    /\ scan = 1
    /\ orch_pc = "start"
    /\ cursor = 1
    /\ parents = HaltParents
    /\ paced = [j \in HaltJobs |-> FALSE]
    /\ clock = 0
    /\ last_query = 0
    /\ min_delay = 0
    /\ mutex = 0
    /\ true_calls = << >>
    /\ InitTurn
    /\ InitApiIdle
    /\ InitNoFiles
    /\ InitStops
    /\ InitFrontIdle

NextHalt == Next \/ ManagerStop

SpecHalt == InitHalt /\ [][NextHalt]_vars

\* ------------------------------------------------------------------ download_to: job lists
\* the binaries each container needs (get_downloaders)
Required(c) ==
    CASE c = "ncbi" -> {"datasets"}
      [] c = "sra" -> {"prefetch", "fasterq-dump"}
      [] OTHER -> {}

\* the values check_binaries can return: None when the automatic download
\* fails, else the binaries found locally and those whose --version ran
CheckBinaries(c) == {None} \cup { Some(S) : S \in SUBSET Required(c) }

\* "downloadable = self.ncbi is not None"
Downloadable(c) == binaries[c] # None

\* the lookups binaries[name] of the job construction find their keys
HasKeys(c) == binaries[c] # None /\ Required(c) \subseteq binaries[c][1]

\* the number of jobs emitted for n accessions: one chain of four jobs for
\* all the ncbi accessions, a chain of four jobs for each sra accession
JobCount(c, n) ==
    CASE c = "ncbi" -> IF n > 0 THEN 4 ELSE 0
      [] c = "sra" -> 4 * n
      [] OTHER -> 0

\* the list jobs_from_accessions returns, each job named by its container and
\* its position in the list
JobsOf(c, n) == [k \in 1..JobCount(c, n) |-> << c, k >>]

\* list.pop() for list.pop(0)
PopFirst_last(list) == [job |-> list[Len(list)], rest |-> SubSeq(list, 1, Len(list) - 1)]

\* list.pop(0)
PopFirst(list) == [job |-> Head(list), rest |-> Tail(list)]

\* "--- ncbi genomes ---" and "--- sra datasets ---": the jobs of a container
\* that is not empty, unless its binaries are None; a missing key raises
EmitJobs(c, next) ==
    /\ dl_pc = c
    /\ IF reg_len[c] > 0 /\ Downloadable(c)
       THEN IF HasKeys(c)
            THEN /\ job_lists' = [job_lists EXCEPT ![c] = JobsOf(c, reg_len[c])]
                 /\ dl_pc' = next
            ELSE /\ dl_pc' = "raised"
                 /\ UNCHANGED job_lists
       ELSE /\ dl_pc' = next
            /\ UNCHANGED job_lists
    /\ UNCHANGED << schedVars, pacerVars, turnVars, apiVars, moveVars, stopVars,
                    reg_len, binaries, rr, submitted, adapterVars, logVars, regVars, srcVars, cliVars, nameVars >>

\* "while len(ncbi_jobs) + len(sra_jobs) + len(wget_jobs) > 0"
SubmitWhile ==
    /\ dl_pc = "loop"
    /\ rr = 0
    /\ IF \E c \in ContainerSet : Len(job_lists[c]) > 0
       THEN rr' = 1 /\ UNCHANGED dl_pc
       ELSE dl_pc' = "poll" /\ UNCHANGED rr
    /\ UNCHANGED << schedVars, pacerVars, turnVars, apiVars, moveVars, stopVars,
                    reg_len, binaries, job_lists, submitted, adapterVars, logVars, regVars, srcVars, cliVars, nameVars >>

\* one "if len(x_jobs) > 0: manager.add_process(x_jobs.pop(0))" of the round
SubmitNext ==
    /\ dl_pc = "loop"
    /\ rr \in 1..Len(Containers)
    /\ LET c == Containers[rr]
           p == PopFirst(job_lists[c])
       IN  IF Len(job_lists[c]) > 0
           THEN /\ submitted' = Append(submitted, p.job)
                /\ job_lists' = [job_lists EXCEPT ![c] = p.rest]
           ELSE UNCHANGED << submitted, job_lists >>
    /\ rr' = IF rr = Len(Containers) THEN 0 ELSE rr + 1
    /\ UNCHANGED << schedVars, pacerVars, turnVars, apiVars, moveVars, stopVars,
                    reg_len, binaries, dl_pc, adapterVars, logVars, regVars, srcVars, cliVars, nameVars >>

\* the registers and what get_downloaders found: a container that is empty
\* is not probed
InitSubmit ==
    /\ InitSched
    /\ parents = [j \in Jobs |-> {}]
    /\ paced = [j \in Jobs |-> FALSE]
    /\ clock = 0
    /\ last_query = 0
    /\ min_delay = 0
    /\ mutex = 0
    /\ true_calls = << >>
    /\ InitTurn
    /\ InitApiIdle
    /\ InitNoFiles
    /\ InitStops
    /\ reg_len \in { f \in [ContainerSet -> 0..MaxReg] : f["wget"] = 0 }
    /\ binaries \in { b \in [ContainerSet -> UNION { CheckBinaries(c) : c \in ContainerSet }] :
                         \A c \in ContainerSet :
                             b[c] \in (IF reg_len[c] > 0 THEN CheckBinaries(c) ELSE {None}) }
    /\ job_lists = [c \in ContainerSet |-> << >>]
    /\ dl_pc = "ncbi"
    /\ rr = 0
    /\ submitted = << >>
    /\ InitNoCall
    /\ InitNoLog
    /\ InitNoRegister
    /\ InitBaseSource
    /\ InitAfterCli
    /\ InitNamed

NextSubmit ==
    \/ EmitJobs("ncbi", "sra")
    \/ EmitJobs("sra", "loop")
    \/ SubmitWhile
    \/ SubmitNext

SpecSubmit == InitSubmit /\ [][NextSubmit]_vars

\* ------------------------------------------------------------------ jobs_from_accessions
\* an accession is its prefix and its number
Prefixes == {"GCA", "ERR", "SRR", "SRX", "SRS"}

AccSet == { << x, 1 >> : x \in Prefixes }

\* the entry of datadir a Logan accession is moved to: logan_<acc>
LoganDir(acc) == << "logan", acc[1], acc[2] >>

DirNames == AccSet \cup { LoganDir(<< "SRR", 1 >>) }

\* the accessions downloaded by one batch of the ncbi adapter
BatchSize == 5

LongLists == { [k \in 1..n |-> << "GCA", k >>] : n \in (BatchSize + 1)..MaxBatchAccs }

\* the argument lists: up to MaxAccs different accessions in any order, and
\* lists long enough for more than one batch of the ncbi adapter
ShortLists ==
    UNION { { l \in [1..n -> AccSet] : \A i, k \in 1..n : l[i] = l[k] => i = k } : n \in 0..MaxAccs }

\* a job object: its identity (the iteration that created it, its role, the
\* file it fetches) and its list of parents
NewJob(i, role, u, prts) == [id |-> << i, role, u >>, parents |-> prts]

\* the entry None of a list
NoJob == [id |-> << 0, "None", 0 >>, parents |-> << >>]

IsJob(job) == job.id[2] # "None"

RECURSIVE Flatten(_)
Flatten(lists) == IF lists = << >> THEN << >> ELSE Head(lists) \o Flatten(Tail(lists))

\* a directory listing that finds nothing
Downloaded_nothing(dir) == {}

\* frozenset(listdir(datadir)), and path.exists(path.join(datadir, acc))
Downloaded(dir) == dir

\* the assembly chain with the move job first
jobs_from_assembly_move_first(i) ==
    << NewJob(i, "move", 0, << << i, "gzip", 0 >> >>),
       NewJob(i, "download", 0, << >>),
       NewJob(i, "gzip", 0, << << i, "download", 0 >> >>) >>

\* ENA.jobs_from_assembly: curl -> gzip -> move
jobs_from_assembly(i) ==
    << NewJob(i, "download", 0, << >>),
       NewJob(i, "gzip", 0, << << i, "download", 0 >> >>),
       NewJob(i, "move", 0, << << i, "gzip", 0 >> >>) >>

\* one curl job for each url, then the move job whose parents are curl_jobs
curl_and_move(i, n) ==
    [u \in 1..n |-> NewJob(i, "curl", u, << >>)]
        \o << NewJob(i, "move", 0, [u \in 1..n |-> << i, "curl", u >>]) >>

\* sources/ena.py, ENA.jobs_from_accessions
ena_jobs(accs, dir, u) ==
    Flatten([i \in 1..Len(accs) |->
        IF accs[i] \in Downloaded(dir) THEN << >>
        ELSE IF accs[i][1] = "GCA" THEN jobs_from_assembly(i)
        ELSE curl_and_move(i, u[i])])

\* sources/ena_reads.py, ENAReads.jobs_from_accessions
ena_reads_jobs(accs, dir, u) ==
    Flatten([i \in 1..Len(accs) |-> curl_and_move(i, u[i])])

\* SRA.jobs_from_SRR, with the prefetch job appended to the parents of each
sra_SRR(i) ==
    << NewJob(i, "prefetch", 0, << >>),
       NewJob(i, "fasterqdump", 0, << << i, "prefetch", 0 >> >>),
       NewJob(i, "compress", 0, << << i, "fasterqdump", 0 >>, << i, "prefetch", 0 >> >>),
       NewJob(i, "clean", 0, << << i, "fasterqdump", 0 >>, << i, "compress", 0 >> >>) >>

\* SRA.jobs_from_SRXP
sra_SRXP(i) ==
    << NewJob(i, "prefetch", 0, << >>),
       NewJob(i, "fasterqdump+gzip", 0, << << i, "prefetch", 0 >> >>),
       NewJob(i, "clean", 0, << << i, "fasterqdump+gzip", 0 >> >>) >>

\* data_sources/sra.py, SRA.jobs_from_accessions: for another prefix
\* prefetch_job stays None and is appended as it is
sra_jobs(accs, dir, u) ==
    Flatten([i \in 1..Len(accs) |->
        IF accs[i] \in Downloaded(dir) THEN << >>
        ELSE IF accs[i][1] = "SRR" THEN sra_SRR(i)
        ELSE IF accs[i][1] \in {"SRX", "SRP"} THEN sra_SRXP(i)
        ELSE << NoJob, NewJob(i, "clean", 0, << >>) >>])

\* sources/sra.py, SRA.jobs_from_accessions
sra_toolkit_jobs(accs, dir, u) ==
    Flatten([i \in 1..Len(accs) |->
        << NewJob(i, "prefetch", 0, << >>),
           NewJob(i, "fasterqdump", 0, << << i, "prefetch", 0 >> >>),
           NewJob(i, "compress", 0, << << i, "fasterqdump", 0 >> >>),
           NewJob(i, "clean", 0, << << i, "compress", 0 >> >>) >>])

\* data_sources/ncbi.py, NCBI.jobs_from_accessions: to_download, then one
\* chain for each slice of BatchSize accessions
ncbi_jobs(accs, dir, u) ==
    LET to_download == SelectSeq(accs, LAMBDA acc : acc \notin Downloaded(dir))
        batches == (Len(to_download) + BatchSize - 1) \div BatchSize
    IN  Flatten([b \in 1..batches |->
            << NewJob(b, "download", 0, << >>),
               NewJob(b, "unzip", 0, << << b, "download", 0 >> >>),
               NewJob(b, "rehydrate", 0, << << b, "unzip", 0 >> >>),
               NewJob(b, "clean", 0, << << b, "rehydrate", 0 >> >>) >>])

\* data_sources/logan.py, Logan.jobs_from_accessions
logan_jobs(accs, dir, u) ==
    Flatten([i \in 1..Len(accs) |->
        IF LoganDir(accs[i]) \in Downloaded(dir) THEN << >>
        ELSE << NewJob(i, "download", 0, << >>),
                NewJob(i, "move", 0, << << i, "download", 0 >> >>) >>])

\* data_sources/url.py, URL.jobs_from_accessions
url_jobs(accs, dir, u) ==
    [i \in 1..Len(accs) |-> NewJob(i, "curl", 0, << >>)]

Adapters == {"ena", "ena_reads", "sra", "sra_toolkit", "ncbi", "logan", "url"}

jobs_from_accessions(a, accs, dir, u) ==
    CASE a = "ena" -> ena_jobs(accs, dir, u)
      [] a = "ena_reads" -> ena_reads_jobs(accs, dir, u)
      [] a = "sra" -> sra_jobs(accs, dir, u)
      [] a = "sra_toolkit" -> sra_toolkit_jobs(accs, dir, u)
      [] a = "ncbi" -> ncbi_jobs(accs, dir, u)
      [] a = "logan" -> logan_jobs(accs, dir, u)
      [] a = "url" -> url_jobs(accs, dir, u)

\* one call of jobs_from_accessions of an adapter
JobsFromAccessions(a) ==
    /\ adapter = "none"
    /\ adapter' = a
    /\ jobs' = jobs_from_accessions(a, accessions, datadir, urls)
    /\ UNCHANGED << schedVars, pacerVars, turnVars, apiVars, moveVars, stopVars,
                    dlVars, logVars, regVars, srcVars, cliVars, nameVars, accessions, datadir, urls >>

InitJobs ==
    /\ InitSched
    /\ max_process = 1
    /\ parents = [j \in Jobs |-> {}]
    /\ paced = [j \in Jobs |-> FALSE]
    /\ clock = 0
    /\ last_query = 0
    /\ min_delay = 0
    /\ mutex = 0
    /\ true_calls = << >>
    /\ InitTurn
    /\ InitApiIdle
    /\ InitNoFiles
    /\ InitStops
    /\ InitNoDownload
    /\ adapter = "none"
    /\ accessions \in ShortLists \cup LongLists
    /\ datadir \in SUBSET DirNames
    /\ urls \in [1..Len(accessions) -> 0..MaxUrls]
    /\ jobs = << >>
    /\ InitNoLog
    /\ InitNoRegister
    /\ InitBaseSource
    /\ InitAfterCli
    /\ InitNamed

NextJobs == \E a \in Adapters : JobsFromAccessions(a)

SpecJobs == InitJobs /\ [][NextJobs]_vars

\* ------------------------------------------------------------------ one ENA accession
\* the jobs of a list as the scheduler holds them: the parents of the job at
\* each position, as positions of the list
ParentsOf(list) ==
    [k \in 1..Len(list) |->
        { p \in 1..Len(list) :
            \E q \in 1..Len(list[k].parents) : list[k].parents[q] = list[p].id }]

\* the curl jobs of the accession are the first of the list, the move job follows
UrlFiles == 1..urls[1]
UrlMoveJob == urls[1] + 1

\* listdir(datadir) as the next run finds it: the entry of the accession is
\* the directory made by move_and_clean
DatadirNow == IF out_dir = None THEN datadir ELSE datadir \cup {accessions[1]}

\* jobs_from_accessions of the next run on the same register
NextRunJobs == ena_jobs(accessions, DatadirNow, urls)

\* the worker of a curl job ends: with status 0 its file is in the staging directory
EnaCurlExit ==
    \E f \in UrlFiles, code \in {0, 1} :
        /\ ProcessExit(f, code)
        /\ acc_dir' = IF code = 0 /\ acc_dir # None THEN Some(acc_dir[1] \cup {f}) ELSE acc_dir
        /\ UNCHANGED << md5s, corrupt, out_dir, mv_result >>

\* the worker of the move job runs move_and_clean(tmp_dir, datadir, md5s)
EnaMoveExit ==
    LET r == move_and_clean(md5s, corrupt, acc_dir, out_dir)
    IN  /\ ProcessExit(UrlMoveJob, IF r.result = "raised" THEN 1 ELSE 0)
        /\ acc_dir' = r.acc_dir
        /\ out_dir' = r.out_dir
        /\ mv_result' = r.result
        /\ UNCHANGED << md5s, corrupt >>

\* ENA.jobs_from_accessions has returned the jobs of one read accession whose
\* URL lookup gave up to MaxUrls files: md5s has one entry for each file and
\* the staging directory is made, empty; the delay between the starts is
\* left out (can_start always true)
InitEna ==
    /\ InitSched
    /\ adapter = "ena"
    /\ accessions = << << "ERR", 1 >> >>
    /\ datadir = {}
    /\ urls \in { << n >> : n \in 0..MaxUrls }
    /\ jobs = ena_jobs(accessions, datadir, urls)
    /\ parents = ParentsOf(jobs)
    /\ paced = [j \in 1..Len(jobs) |-> FALSE]
    /\ clock = StartClock
    /\ last_query = 0
    /\ min_delay = 0
    /\ mutex = 0
    /\ true_calls = << >>
    /\ InitTurn
    /\ InitApiIdle
    /\ InitStops
    /\ InitNoDownload
    /\ InitNoLog
    /\ InitNoRegister
    /\ InitBaseSource
    /\ InitAfterCli
    /\ InitNamed
    /\ md5s = Some(UrlFiles)
    /\ corrupt \in SUBSET UrlFiles
    /\ acc_dir = Some({})
    /\ out_dir = None
    /\ mv_result = "none"

NextEna ==
    \/ SchedStart
    \/ SchedReap
    \/ SchedPromote
    \/ SchedDrain
    \/ AddJobDeps
    \/ AddJobQueue
    \/ SubmitDone
    \/ PollStop
    \/ OrchJoin
    \/ EnaCurlExit
    \/ EnaMoveExit

SpecEna == InitEna /\ [][NextEna]_vars

\* ------------------------------------------------------------------ job names
\* sources/url_server.py, UrlServer.jobs_from_accessions: the job of a URL is
\* named after the file name the server gives for it
url_server_jobs(accs, dir, u) ==
    [i \in 1..Len(accs) |->
        [id |-> << i, "curl", 0 >>, parents |-> << >>, name |-> << "url", u[i] >>]]

\* the URL adapter was given up to MaxUrls different URLs, and get_filename
\* has found one of MaxFileNames file names for each
InitNames ==
    /\ InitSched
    /\ adapter = "url_server"
    /\ accessions \in { [k \in 1..n |-> << "http", k >>] : n \in 1..MaxUrls }
    /\ datadir = {}
    /\ urls \in [1..Len(accessions) -> 1..MaxFileNames]
    /\ jobs = url_server_jobs(accessions, datadir, urls)
    /\ parents = ParentsOf(jobs)
    /\ paced = [k \in 1..Len(jobs) |-> TRUE]
    /\ name = [k \in 1..Len(jobs) |-> jobs[k].name]
    /\ log_folder \in {None, Some("logs")}
    /\ log_file = [k \in 1..Len(jobs) |-> LogFileOf(name[k])]
    /\ clock = StartClock
    /\ last_query = 0
    /\ min_delay \in 0..MaxDelay
    /\ mutex = 0
    /\ true_calls = << >>
    /\ InitTurn
    /\ InitApiIdle
    /\ InitNoFiles
    /\ InitStops
    /\ InitNoDownload
    /\ InitNoLog
    /\ InitNoRegister
    /\ InitBaseSource
    /\ InitAfterCli

SpecNames == InitNames /\ [][NextPace]_vars

\* ------------------------------------------------------------------ the register files
\* a string is a sequence of symbols: a word, a letter, "#", ".", a digit, a
\* space or a tabulation
Whitespace == {" ", "TAB"}

Digits == << "0", "1", "2", "3", "4", "5", "6", "7", "8", "9" >>

DigitSet == { Digits[k] : k \in 1..Len(Digits) }

\* str.strip()
RECURSIVE LStrip(_), RStrip(_)
LStrip(str) ==
    IF str # << >> /\ Head(str) \in Whitespace THEN LStrip(Tail(str)) ELSE str
RStrip(str) ==
    IF str # << >> /\ str[Len(str)] \in Whitespace
    THEN RStrip(SubSeq(str, 1, Len(str) - 1)) ELSE str

Strip(str) == RStrip(LStrip(str))

\* str.split(sep), for a separator among seps
RECURSIVE Split(_, _)
Split(str, seps) ==
    IF \E i \in 1..Len(str) : str[i] \in seps
    THEN LET i == CHOOSE k \in 1..Len(str) :
                      str[k] \in seps /\ \A m \in 1..(k - 1) : str[m] \notin seps
         IN  << SubSeq(str, 1, i - 1) >> \o Split(SubSeq(str, i + 1, Len(str)), seps)
    ELSE << str >>

\* str.split() without argument: the fields between runs of whitespace
SplitWs(str) == SelectSeq(Split(str, Whitespace), LAMBDA field : field # << >>)

\* int(str) succeeds
IsInt(str) == str # << >> /\ \A i \in 1..Len(str) : str[i] \in DigitSet

RECURSIVE ToInt(_)
ToInt(str) ==
    IF str = << >> THEN 0
    ELSE 10 * ToInt(SubSeq(str, 1, Len(str) - 1))
             + (CHOOSE k \in 1..Len(Digits) : Digits[k] = str[Len(str)]) - 1

\* the decimal writing of a number in an f-string
RECURSIVE ToStr(_)
ToStr(n) ==
    IF n < 10 THEN << Digits[n + 1] >>
    ELSE ToStr(n \div 10) \o << Digits[(n % 10) + 1] >>

\* Register.major_version, Register.minor_version
major_version == 0

minor_version == 1

\* the line "version <major>.<minor>"
VersionLine(major, minor) == << "version", " " >> \o ToStr(major) \o << "." >> \o ToStr(minor)

\* a version check that accepts every minor version
VersionCheck_any_minor(line) ==
    LET tokens == SplitWs(Strip(line))
        parts == Split(tokens[2], {"."})
    IN  IF Len(tokens) # 2 THEN "raise"
        ELSE IF tokens[1] # << "version" >> THEN "no_prefix"
        ELSE IF Len(parts) # 2 \/ \E k \in 1..Len(parts) : ~IsInt(parts[k]) THEN "raise"
        ELSE IF ToInt(parts[1]) # major_version THEN "bad_major"
        ELSE "ok"

\* the version check of load_from_file on the first line: the unpacking of
\* the fields and int() raise ValueError on a line of another form
VersionCheck(line) ==
    LET tokens == SplitWs(Strip(line))
        parts == Split(tokens[2], {"."})
    IN  IF Len(tokens) # 2 THEN "raise"
        ELSE IF tokens[1] # << "version" >> THEN "no_prefix"
        ELSE IF Len(parts) # 2 \/ \E k \in 1..Len(parts) : ~IsInt(parts[k]) THEN "raise"
        ELSE IF ToInt(parts[1]) # major_version THEN "bad_major"
        ELSE IF ToInt(parts[2]) > minor_version THEN "bad_minor"
        ELSE "ok"

\* one iteration of "for line in fr"
ReadLine(st, raw) ==
    LET line == Strip(raw)
        split == Split(line, {"TAB"})
    IN  IF Len(line) = 0 THEN st
        ELSE IF line[1] = "#" THEN st
        ELSE IF st.remaining_to_read = 0
        THEN IF Len(split) # 2 THEN [st EXCEPT !.status = "invalid"]
             ELSE IF ~IsInt(split[2]) THEN [st EXCEPT !.status = "raise"]
             ELSE [st EXCEPT !.current_register = split[1],
                             !.remaining_to_read = ToInt(split[2])]
        ELSE IF st.current_register \notin RegNameSet
        THEN [st EXCEPT !.status = "unknown"]
        ELSE [st EXCEPT !.data[st.current_register] = @ \cup {line},
                        !.remaining_to_read = @ - 1]

RECURSIVE ReadLines(_, _, _)
ReadLines(st, lines, i) ==
    IF i > Len(lines) \/ st.status # "reading" THEN st
    ELSE ReadLines(ReadLine(st, lines[i]), lines, i + 1)

\* Register.load_from_file: the containers after the load of the lines of a file
load_from_file(lines, data) ==
    IF VersionCheck(IF lines = << >> THEN << >> ELSE Head(lines)) # "ok" THEN data
    ELSE ReadLines([data |-> data, remaining_to_read |-> 0,
                    current_register |-> << >>, status |-> "reading"],
                   Tail(lines), 1).data

\* the orders in which the accessions of the containers can be iterated
OrdersOf(data) ==
    { order \in [RegNameSet -> UNION { [1..n -> UNION { data[x] : x \in RegNameSet }] : n \in 0..MaxReg }] :
          \A n \in RegNameSet :
              /\ Len(order[n]) = Cardinality(data[n])
              /\ { order[n][k] : k \in 1..Len(order[n]) } = data[n] }

\* Register.save_to_file: the lines it writes
save_to_file(data, order) ==
    << VersionLine(major_version, minor_version) >>
        \o Flatten([k \in 1..Len(RegNames) |->
               IF Cardinality(data[RegNames[k]]) > 0
               THEN << RegNames[k] \o << "TAB" >> \o ToStr(Cardinality(data[RegNames[k]])) >>
                        \o order[RegNames[k]]
               ELSE << >>])

\* Register.save_to_dir: a file for each container that is not empty, no
\* file for an empty one
save_to_dir(data, order) ==
    [n \in RegNameSet |-> IF Cardinality(data[n]) > 0 THEN Some(order[n]) ELSE None]

\* Register.load_from_dir with get_accessions_from_source
load_from_dir(dir, data) ==
    [n \in RegNameSet |->
        IF dir[n] = None THEN data[n]
        ELSE data[n] \cup { Strip(dir[n][1][k]) : k \in { m \in 1..Len(dir[n][1]) : Strip(dir[n][1][m]) # << >> } }]

\* the accessions a container can hold: the lines a loader adds, stripped
\* and not empty
AccChars == {"a", "#"}

AccStrings == UNION { [1..n -> AccChars] : n \in 1..MaxChars }

\* first lines of register files that do not come from this save_to_file
NoPrefixLines ==
    { << >>, << "a" >>, << "readarchives", "TAB", "1" >>, << "a", " ", "0", ".", "1" >> }

FirstLines ==
    { VersionLine(major, minor) : major, minor \in 0..MaxVersion }
        \cup NoPrefixLines \cup { << "version" >>, << "version", " ", "1" >> }

SaveToFile ==
    /\ reg_pc = "new"
    /\ \E order \in OrdersOf(data_containers) :
           regfile' = save_to_file(data_containers, order)
    /\ reg_pc' = "saved_file"
    /\ UNCHANGED << schedVars, pacerVars, turnVars, apiVars, moveVars, stopVars,
                    dlVars, adapterVars, logVars, srcVars, cliVars, nameVars, data_containers, regdir, loaded, before >>

\* the file comes from another version of the tool, or was edited
ForeignHeader ==
    /\ reg_pc = "saved_file"
    /\ \E line \in FirstLines : regfile' = << line >> \o Tail(regfile)
    /\ reg_pc' = "foreign_file"
    /\ UNCHANGED << schedVars, pacerVars, turnVars, apiVars, moveVars, stopVars,
                    dlVars, adapterVars, logVars, srcVars, cliVars, nameVars, data_containers, regdir, loaded, before >>

LoadFromFile ==
    /\ reg_pc \in {"saved_file", "foreign_file"}
    /\ before' = loaded
    /\ loaded' = load_from_file(regfile, loaded)
    /\ reg_pc' = IF reg_pc = "saved_file" THEN "loaded_file" ELSE "loaded_foreign"
    /\ UNCHANGED << schedVars, pacerVars, turnVars, apiVars, moveVars, stopVars,
                    dlVars, adapterVars, logVars, srcVars, cliVars, nameVars, data_containers, regfile, regdir >>

SaveToDir ==
    /\ reg_pc = "new"
    /\ \E order \in OrdersOf(data_containers) :
           regdir' = save_to_dir(data_containers, order)
    /\ reg_pc' = "saved_dir"
    /\ UNCHANGED << schedVars, pacerVars, turnVars, apiVars, moveVars, stopVars,
                    dlVars, adapterVars, logVars, srcVars, cliVars, nameVars, data_containers, regfile, loaded, before >>

LoadFromDir ==
    /\ reg_pc = "saved_dir"
    /\ before' = loaded
    /\ loaded' = load_from_dir(regdir, loaded)
    /\ reg_pc' = "loaded_dir"
    /\ UNCHANGED << schedVars, pacerVars, turnVars, apiVars, moveVars, stopVars,
                    dlVars, adapterVars, logVars, srcVars, cliVars, nameVars, data_containers, regfile, regdir >>

\* a register with up to MaxReg accessions in each container, a register
\* that loads, fresh or not, and a directory with or without older files
InitReg ==
    /\ InitSched
    /\ max_process = 1
    /\ parents = [j \in Jobs |-> {}]
    /\ paced = [j \in Jobs |-> FALSE]
    /\ clock = 0
    /\ last_query = 0
    /\ min_delay = 0
    /\ mutex = 0
    /\ true_calls = << >>
    /\ InitTurn
    /\ InitApiIdle
    /\ InitNoFiles
    /\ InitStops
    /\ InitNoDownload
    /\ InitNoCall
    /\ InitNoLog
    /\ InitBaseSource
    /\ InitAfterCli
    /\ InitNamed
    /\ data_containers \in [RegNameSet -> { S \in SUBSET AccStrings : Cardinality(S) <= MaxReg }]
    /\ regfile = << >>
    /\ regdir \in [RegNameSet -> {None, Some(<< << "a" >> >>)}]
    /\ loaded \in { [n \in RegNameSet |-> {}], [n \in RegNameSet |-> {<< "a" >>}] }
    /\ before = loaded
    /\ reg_pc = "new"

NextReg ==
    \/ SaveToFile
    \/ ForeignHeader
    \/ LoadFromFile
    \/ SaveToDir
    \/ LoadFromDir

SpecReg == InitReg /\ [][NextReg]_vars

\* ------------------------------------------------------------------ the log of a run
\* a run of download_to whose logged lines are recorded
InitLog ==
    /\ InitSched
    /\ parents \in DAGs
    /\ paced = [j \in Jobs |-> FALSE]
    /\ clock = 0
    /\ last_query = 0
    /\ min_delay = 0
    /\ mutex = 0
    /\ true_calls = << >>
    /\ InitTurn
    /\ InitApiIdle
    /\ InitNoFiles
    /\ InitStops
    /\ InitNoDownload
    /\ InitNoCall
    /\ logging = TRUE
    /\ log = << >>
    /\ reaped = {}
    /\ InitNoRegister
    /\ InitBaseSource
    /\ InitAfterCli
    /\ InitNamed

SpecLog == InitLog /\ [][Next]_vars

\* the steps of each thread
SchedNext == SchedReap \/ SchedPromote \/ SchedDrain

OrchNext == SchedStart \/ AddJobDeps \/ AddJobQueue \/ SubmitDone \/ PollStop \/ OrchJoin

\* both threads keep running and every started worker ends
FairSpec ==
    /\ Init /\ [][Next]_vars
    /\ WF_vars(SchedNext) /\ WF_vars(OrchNext) /\ WF_vars(WorkerExit)

\* ------------------------------------------------------------------ claims on the scheduler
Submitted == { j \in Jobs : InSeq(j, processes) }

\* the transitive descendants of the jobs of S along parent edges
RECURSIVE DescendantsOf(_)
DescendantsOf(S) ==
    LET T == S \cup { c \in Jobs : parents[c] \cap S # {} }
    IN  IF T = S THEN S ELSE DescendantsOf(T)

Descendants(j) == DescendantsOf({j}) \ {j}

\* a step of the scheduler that reaps, and the jobs it reaps as failed
ReapStep == sched_pc = "top" /\ sched_pc' \in {"promote", "crashed"}

Reaped == { j \in Jobs : InSeq(j, running) /\ process[j] = "dead" }

ReapedFailed == { j \in Reaped : exitcode[j] # Some(0) }

\* C1: whenever start() is called on a job, each of its parents is over with
\* return code 0
C1_StartAfterParentsSucceeded ==
    [][\A j \in Jobs :
         (process[j] = "none" /\ process'[j] = "alive") =>
            \A p \in parents[j] :
                is_over[p] /\ get_returncode(CurState, p) = Some(0)]_vars

\* C2: at the end of a reap step every submitted descendant of a job reaped as
\* failed is over, has a defined return code other than 0, is in neither queue
\* and was never started
C2_DescendantsCancelled ==
    [][ReapStep =>
         \A j \in ReapedFailed : \A d \in Descendants(j) \cap Submitted :
             /\ is_over'[d]
             /\ (IF process'[d] = "dead" THEN exitcode'[d] ELSE None) \notin {None, Some(0)}
             /\ ~InSeq(d, waiting') /\ ~InSeq(d, running')
             /\ process'[d] = "none"]_vars

\* C3: the number of running jobs never exceeds max_process
C3_RunningAtMostMax == Len(running) <= max_process

\* C3 witness: the cap is reached while an eligible job is left waiting
C3_Witness ==
    /\ Len(running) = max_process
    /\ \E j \in Jobs : InSeq(j, waiting) /\ ~InSeq(j, running) /\ NotOverAndParentsOver(j)

\* the state of one job that cancellation can change
JobView(j) == << is_over[j], process[j], exitcode[j], InSeq(j, waiting), InSeq(j, running) >>

\* a job that received stop() before it ended by itself
Cancelled(j) == is_over[j] /\ (process[j] = "none" \/ exitcode[j] = Some(KILLED))

Ancestors(j) == { a \in Jobs : j \in Descendants(a) }

Diamond == [j \in Jobs |-> CASE j = 2 -> {1} [] j = 3 -> {1} [] j = 4 -> {2, 3} [] OTHER -> {}]

\* C9: a reap step changes the state of the reaped jobs and of the descendants
\* of the failed ones only, and a job is cancelled only when one of its
\* ancestors ended with a return code other than 0 (in the diamond with B
\* failing: never A or C)
C9_ReapFrame ==
    ReapStep =>
        \A k \in Jobs \ (Reaped \cup DescendantsOf(ReapedFailed)) : JobView(k)' = JobView(k)

C9_OnlyDescendantsOfFailed ==
    \A k \in Jobs : Cancelled(k) => \E a \in Ancestors(k) : exitcode[a] \notin {None, Some(0), Some(KILLED)}

C4_DownloadReturns ==
    <>(orch_pc = "done" /\ remaining_jobs = 0 /\ sched_pc = "exited")

\* C6: two consecutive calls of source_delay_ready that return True, and the
\* two starts that follow them, are at least min_delay apart
C6_PacedStartsApart ==
    \A i \in 1..(Len(true_calls) - 1) :
        /\ true_calls[i + 1][1] - true_calls[i][1] >= min_delay
        /\ true_calls[i + 1][2] - true_calls[i][2] >= min_delay

\* C6 witness: a second paced job was started as soon as the delay allowed it,
\* with room left under max_process
C6_Witness ==
    /\ min_delay >= 1
    /\ Len(true_calls) >= 2
    /\ true_calls[2][1] - true_calls[1][2] = min_delay + 1
    /\ Len(running) < max_process

\* C7: a thread returns from wait_my_turn at least min_delay after the
\* end_my_turn that precedes it
C7_TurnsApart == turn_gap = None \/ turn_gap[1] >= min_delay

\* C5: valid_accessions_on_API holds the mutex neither when it waits for its
\* next turn nor when it has returned
C5_MutexReleased ==
    api_pc \in {"wait", "acquire", "returned"} => mutex # ApiThread

\* C8: once move_and_clean has met a listed file whose MD5 differs, the worker
\* of the move job has a return code other than 0, the staging directory is
\* removed and no file of the accession is in datadir
C8_BadMd5Fails ==
    mv_result = "mismatch" =>
        /\ exitcode[MoveJob] \notin {None, Some(0)}
        /\ acc_dir = None
        /\ (out_dir = None \/ out_dir[1] = {})

\* a step that is a call of stop() on job j after an earlier one
SecondStop(j) == stop_count[j] >= 1 /\ stop_count'[j] = stop_count[j] + 1

C10_SecondStopFrame ==
    \A j \in StopJobs :
        SecondStop(j) => UNCHANGED << is_over, process, exitcode >>

C10_AfterStops ==
    \A j \in StopJobs :
        stop_count[j] >= 2 => is_over[j] /\ get_returncode(CurState, j) = rc_first[j]

\* C10: a second call of stop() on a job, whatever its lifecycle state,
\* changes nothing: the job stays over and its return code is the one it had
\* after the first call
C10_StopIdempotent == []C10_AfterStops /\ [][C10_SecondStopFrame]_vars

\* a CmdLineJob killed while running and a FunctionJob never started, each
\* stopped twice
C10_Witness ==
    /\ stop_count[1] >= 2 /\ rc_first[1] = Some(KILLED)
    /\ stop_count[MoveJob] >= 2 /\ process[MoveJob] = "none"

\* C11: once stop() is signalled and the scheduler thread has ended, no job
\* has a live worker
C11_NoLiveWorkerAfterStop ==
    (stopped /\ sched_pc \in {"exited", "crashed"}) =>
        \A j \in DOMAIN process : process[j] # "alive"

\* the position of a job in the round-robin order: its round, then its container
RoundRank(job) ==
    << job[2], CHOOSE k \in 1..Len(Containers) : Containers[k] = job[1] >>

RankBefore(a, b) == a[1] < b[1] \/ (a[1] = b[1] /\ a[2] < b[2])

\* the jobs of container c among those submitted, in order
SubmittedOf(c) == SelectSeq(submitted, LAMBDA job : job[1] = c)

\* the list a container has handed over once its jobs are emitted
EmittedOf(c) == SubmittedOf(c) \o job_lists[c]

\* C12: the jobs are submitted round by round, in each round the next job of
\* every container that has one left, in the order of the containers; the
\* order inside a container is kept, no job is submitted twice and the loop
\* ends with every list empty and every emitted job submitted
C12_RoundRobin ==
    /\ \A i \in 1..(Len(submitted) - 1) :
           RankBefore(RoundRank(submitted[i]), RoundRank(submitted[i + 1]))
    /\ \A c \in ContainerSet :
           EmittedOf(c) \in {<< >>, JobsOf(c, reg_len[c])}
    /\ dl_pc = "poll" => \A c \in ContainerSet : job_lists[c] = << >>

\* C12 witness: two containers with lists of different lengths, all submitted
C12_Witness ==
    /\ dl_pc = "poll"
    /\ Len(SubmittedOf("ncbi")) = 4
    /\ Len(SubmittedOf("sra")) = 8

\* a container that is not empty and whose adapter is not ready / is ready:
\* is_ready() is "the binaries are not None"
NotReady(c) == reg_len[c] > 0 /\ ~Downloadable(c)

IsReady(c) == reg_len[c] > 0 /\ Downloadable(c)

\* C13: no job is emitted or submitted for a container whose adapter is not
\* ready, and when download_to has left the submission every job of each
\* other container that is ready has been submitted
C13_NotReadySkipped ==
    \A c \in ContainerSet :
        NotReady(c) =>
            /\ job_lists[c] = << >>
            /\ SubmittedOf(c) = << >>
            /\ dl_pc \in {"poll", "raised"} =>
                   \A d \in ContainerSet \ {c} :
                       IsReady(d) => SubmittedOf(d) = JobsOf(d, reg_len[d])

\* the positions of the list that hold the jobs created for accession i
JobsAt(i) == { k \in 1..Len(jobs) : IsJob(jobs[k]) /\ jobs[k].id[1] = i }

SeqRange(list) == { list[k] : k \in 1..Len(list) }

\* C14: in every list an adapter returns, each parent of each job is a job
\* of the list at an earlier position; for the ENA adapter an assembly gives
\* the chain curl -> gzip -> move and a read accession one curl job without
\* parents for each file, followed by one move job whose parents are exactly
\* those curl jobs
C14_ParentsBefore ==
    adapter # "none" =>
        /\ \A k \in 1..Len(jobs) :
               IsJob(jobs[k]) =>
                   \A p \in SeqRange(jobs[k].parents) :
                       \E m \in 1..(k - 1) : IsJob(jobs[m]) /\ jobs[m].id = p
        /\ adapter = "ena" =>
               \A i \in 1..Len(accessions) :
                   accessions[i] \notin datadir =>
                       \E first \in 1..Len(jobs) :
                           LET n == IF accessions[i][1] = "GCA" THEN 2 ELSE urls[i]
                               job(k) == jobs[first + k]
                           IN  /\ JobsAt(i) = first..(first + n)
                               /\ job(n).id[2] = "move"
                               /\ IF accessions[i][1] = "GCA"
                                  THEN /\ job(0).id[2] = "download"
                                       /\ job(1).id[2] = "gzip"
                                       /\ job(0).parents = << >>
                                       /\ job(1).parents = << job(0).id >>
                                       /\ job(2).parents = << job(1).id >>
                                  ELSE /\ \A k \in 0..(n - 1) :
                                              /\ job(k).id[2] = "curl"
                                              /\ job(k).parents = << >>
                                       /\ SeqRange(job(n).parents) =
                                              { job(k).id : k \in 0..(n - 1) }
                                       /\ Len(job(n).parents) = n

\* C14 witness: the ENA adapter returned the jobs of an assembly and of a
\* read accession with two files
C14_Witness ==
    /\ adapter = "ena"
    /\ Len(accessions) = 2
    /\ accessions[1][1] = "ERR"
    /\ accessions[2][1] = "GCA"
    /\ urls[1] = 2
    /\ Len(jobs) = 6

\* the adapters that look for the accession in datadir, and the entry each
\* looks for
Skipping == {"ena", "sra", "logan"}

EntryOf(a, acc) == IF a = "logan" THEN LoganDir(acc) ELSE acc

\* C16: the list holds no job for an accession whose entry exists in
\* datadir and a job for every other accession of the call; it is empty
\* when every accession is present
C16_PresentSkipped ==
    adapter \in Skipping =>
        /\ \A i \in 1..Len(accessions) :
               (EntryOf(adapter, accessions[i]) \in datadir) <=> (JobsAt(i) = {})
        /\ (\A i \in 1..Len(accessions) : EntryOf(adapter, accessions[i]) \in datadir)
               => jobs = << >>

\* C16 witness: of two accessions one is present in datadir and the other
\* one has its jobs
C16_Witness ==
    /\ adapter \in {"ena", "sra"}
    /\ Len(accessions) = 2
    /\ accessions[1] \in datadir
    /\ accessions[2] \notin datadir
    /\ JobsAt(1) = {}
    /\ JobsAt(2) # {}

\* the number of lines of the log with a keyword about a job, and the
\* position of the first one
Lines(keyword, j) == { k \in 1..Len(log) : log[k] = << keyword, j >> }

FirstLine(keyword, j) == CHOOSE k \in Lines(keyword, j) : \A m \in Lines(keyword, j) : k <= m

\* C15: no job has more than one START line; a job that was started and
\* reaped has one START line and, after it, one DONE line and no ERROR line
\* when its return code is 0, one ERROR line and one "Please check the log
\* file" line and no DONE line otherwise; a cancelled job has a CANCEL line
C15_LogLines ==
    \A j \in Jobs :
        /\ Cardinality(Lines("START", j)) <= 1
        /\ j \in reaped =>
               /\ Cardinality(Lines("START", j)) = 1
               /\ \A k \in Lines("DONE", j) \cup Lines("ERROR", j) \cup Lines("PLEASE", j) :
                      FirstLine("START", j) < k
               /\ IF get_returncode(CurState, j) = Some(0)
                  THEN /\ Cardinality(Lines("DONE", j)) = 1
                       /\ Lines("ERROR", j) = {}
                       /\ Lines("PLEASE", j) = {}
                  ELSE /\ Lines("DONE", j) = {}
                       /\ Cardinality(Lines("ERROR", j)) = 1
                       /\ Cardinality(Lines("PLEASE", j)) = 1
        /\ Cancelled(j) => Lines("CANCEL", j) # {}

\* C15 witness: one job done, one job failed and one of its descendants
\* cancelled
C15_Witness ==
    \E a, b, c \in Jobs :
        /\ {a, b} \subseteq reaped
        /\ Lines("DONE", a) # {}
        /\ Lines("ERROR", b) # {}
        /\ c \in Descendants(b)
        /\ Cancelled(c)
        /\ Lines("CANCEL", c) # {}

\* an accession that reads as a comment line
CommentLike(acc) == acc[1] = "#"

NoComment == \A n \in RegNameSet : \A acc \in data_containers[n] : ~CommentLike(acc)

\* C17: after load_from_file of a file whose first line lacks the prefix
\* version, or has another major version or a greater minor version than
\* the tool, every container of the loading register is as before; with the
\* major version of the tool and a minor version not greater, the accessions
\* of the file (written by save_to_file, none of them a comment line) are in
\* the containers
C17_VersionGate ==
    reg_pc \in {"loaded_file", "loaded_foreign"} =>
        /\ regfile[1] \in NoPrefixLines => loaded = before
        /\ \A major, minor \in 0..MaxVersion :
               regfile[1] = VersionLine(major, minor) =>
                   IF major = major_version /\ minor <= minor_version
                   THEN NoComment =>
                            loaded = [n \in RegNameSet |-> before[n] \cup data_containers[n]]
                   ELSE loaded = before

\* C17 witness: a file of minor version 0 was loaded, and the containers of
\* the loading register have changed
C17_Witness ==
    /\ reg_pc = "loaded_foreign"
    /\ regfile[1] = VersionLine(major_version, 0)
    /\ loaded # before

\* C18: after save_to_file and load_from_file into a fresh register, and
\* after save_to_dir and load_from_dir into a fresh register, every
\* container holds the accession set it held in the saved register
C18_RoundTrip ==
    (reg_pc \in {"loaded_file", "loaded_dir"} /\ before = [n \in RegNameSet |-> {}]) =>
        loaded = data_containers

\* C19: from the moment is_over is true the return code of the job is
\* defined, also for a job whose is_over was set by a cancellation or a
\* stop() before it was started
C19_OverHasReturnCode ==
    \A j \in Jobs : is_over[j] => get_returncode(CurState, j) # None

\* the rest of the property: is_over never goes back to false, and a return
\* code that is defined when is_over is true never changes
C19_OverOnce ==
    [][\A j \in Jobs :
         is_over[j] =>
             /\ is_over'[j]
             /\ get_returncode(CurState, j) # None =>
                    get_returncode(CurState, j)' = get_returncode(CurState, j)]_vars

\* C20: no job is in both waiting and running, and every submitted job that
\* is not over is in exactly one of the two
C20_OneQueue ==
    \A j \in Jobs :
        /\ ~(InSeq(j, waiting) /\ InSeq(j, running))
        /\ (InSeq(j, processes) /\ ~is_over[j]) =>
               (InSeq(j, waiting) \/ InSeq(j, running))

\* C21: for the SRA source, two consecutive calls of src_delay_ready that
\* return True are at least min_delay apart, and so are the starts of the two
\* paced jobs that follow them
C21_SraStartsApart ==
    sra =>
        \A i \in 2..Len(true_calls) :
            /\ true_calls[i][1] >= true_calls[i - 1][1] + min_delay
            /\ true_calls[i][2] >= true_calls[i - 1][2] + min_delay

\* C22: the cap that on_download passes to download_to, the max_process of
\* the JobManager, is a positive integer not greater than threads_available(),
\* also when --max-processes is left at its default
C22_CapPositive ==
    (orch_pc # "cli" /\ threads_nb >= 1) =>
        /\ max_process >= 1
        /\ max_process <= threads_nb

\* C23: the ENA adapter makes the entry of an accession in datadir only after
\* at least one file of the accession was moved into it; when the URL lookup
\* gave no file, or a checksum differs, there is no entry and the next run
\* builds the jobs of the accession again
C23_EntryAfterMove ==
    adapter = "ena" =>
        /\ out_dir # None => out_dir[1] # {}
        /\ (urls[1] = 0 \/ mv_result = "mismatch") =>
               (out_dir = None /\ NextRunJobs # << >>)

\* one iteration of "for job in self.waiting" that went past the cap test
EvalStep == sched_pc = "promote" /\ sched_pc' = "promote" /\ scan' # scan

\* the iteration, or the exhaustion of the list, that ends the scan
ScanEndStep == sched_pc = "promote" /\ sched_pc' = "top"

InSubmissionOrder(list) ==
    \A i, k \in 1..Len(list) : i < k => list[i] < list[k]

\* C25: within a tick jobs are promoted in submission order: waiting keeps
\* the order of add_job, the scan visits it from the first job on, the jobs
\* started in the tick are those it visited and are started in that order, a
\* job the scan left behind was not ready when it was visited (for a job
\* without pacing: it is over or a parent is not over), and so the first job
\* started in the tick is the first one that was found ready
C25_SubmissionOrder ==
    /\ [](/\ InSubmissionOrder(waiting)
          /\ sched_pc = "promote" =>
               /\ InSubmissionOrder(to_remove)
               /\ \A n \in 1..Len(to_remove) :
                      \E i \in 1..Len(waiting) : i < scan /\ waiting[i] = to_remove[n]
               /\ \A i \in 1..Len(waiting) :
                      (i < scan /\ ~InSeq(waiting[i], to_remove) /\ ~paced[waiting[i]]) =>
                          ~NotOverAndParentsOver(waiting[i]))
    /\ [][EvalStep =>
            LET job == waiting[scan]
            IN  running' = running =>
                    \/ ~NotOverAndParentsOver(job)
                    \/ /\ paced[job]
                       /\ ~SourceDelayReady(mutex = 0, clock, clock', last_query, min_delay).ready]_vars

\* C25 witness: in one tick job 2 was started first, job 3, whose can_start
\* returned false, was left waiting, and job 4 was started after it
C25_Witness ==
    /\ sched_pc = "promote"
    /\ waiting = << 2, 3, 4 >>
    /\ to_remove = << 2, 4 >>
    /\ running = << 2, 4 >>

\* a call of source_delay_ready by thread t in wait_my_turn that returns True
CallTrue(t) == th_pc[t] \in {"idle", "wait"} /\ th_pc'[t] = "acquire"

\* the first call of source_delay_ready by thread t in wait_my_turn, returning False
CallFalse(t) == th_pc[t] = "idle" /\ th_pc'[t] = "wait"

\* C26, as stated: source_delay_ready returns True exactly when it gets the
\* mutex and now - last_query >= min_delay, the boundary counting as ready;
\* on True last_query is the time of the call, on False it is unchanged, and
\* the caller never holds the mutex on return
C26_BoundaryReady ==
    [][\A t \in Threads :
         /\ CallTrue(t) =>
                /\ mutex = 0 /\ clock - last_query >= min_delay
                /\ last_query' \in clock..clock'
                /\ mutex' # t
         /\ CallFalse(t) =>
                /\ ~(mutex = 0 /\ clock - last_query >= min_delay)
                /\ last_query' = last_query
                /\ mutex' # t]_vars

\* C26, amended: source_delay_ready returns True exactly when it gets the
\* mutex and now - last_query > min_delay; at now - last_query = min_delay it
\* returns False.  On True last_query is the clock read after the test, on
\* False it is unchanged, and the caller never holds the mutex on return
C26_StrictlyLater ==
    [][\A t \in Threads :
         /\ CallTrue(t) =>
                /\ mutex = 0 /\ clock - last_query > min_delay
                /\ last_query' = clock'
                /\ mutex' = 0
         /\ CallFalse(t) =>
                /\ ~(mutex = 0 /\ clock - last_query > min_delay)
                /\ last_query' = last_query
                /\ mutex' = mutex /\ mutex' # t]_vars

\* C26 witness: after a turn that ended at last_release, a call returned True
\* at the first clock reading past the boundary, last_release + min_delay + 1
C26_Witness ==
    \E t \in Threads :
        /\ th_pc[t] = "acquire"
        /\ mutex = 0
        /\ min_delay >= 1
        /\ last_release # None
        /\ last_query = clock
        /\ last_query - last_release[1] = min_delay + 1

\* a thread is between its return from wait_my_turn and its end_my_turn
QueryInFlight == \E t \in Threads : th_pc[t] = "turn"

C28_UniqueNames ==
    \A i, k \in DOMAIN name :
        (i # k /\ InSeq(i, processes) /\ InSeq(k, processes)) =>
            /\ name[i] # name[k]
            /\ log_file[i] # log_file[k]
            /\ ~(process[i] = "alive" /\ process[k] = "alive" /\ log_file[i] = log_file[k])

\* C29: the scheduler calls can_start only for a job that is not over, whose
\* parents are all over, with fewer than max_process jobs running; a call
\* that returns True and sets last_query is followed, in the same iteration
\* of the same tick, by the start of that job, so that no slot of the pacer
\* goes to a job that is not started
C29_SlotMeansStart ==
    [][/\ (last_query' # last_query \/ true_calls' # true_calls) =>
            /\ EvalStep
            /\ paced[waiting[scan]]
            /\ running' = Append(running, waiting[scan])
            /\ to_remove' = Append(to_remove, waiting[scan])
            /\ process[waiting[scan]] = "none"
            /\ process'[waiting[scan]] = "alive"
       /\ (EvalStep /\ (clock' # clock \/ last_query' # last_query)) =>
            /\ ~is_over[waiting[scan]]
            /\ \A p \in parents[waiting[scan]] : is_over[p]
            /\ Len(running) < max_process]_vars

\* C29 witness: the move job, whose parents are the two curl jobs, got the
\* third slot of the pacer and is running
C29_Witness ==
    /\ Len(true_calls) = 3
    /\ last_query = true_calls[3][2]
    /\ is_over[1] /\ is_over[2]
    /\ process[MoveJob] = "alive"
    /\ InSeq(MoveJob, running)

\* ------------------------------------------------------------------ the poll of the orchestrator
\* the orchestrator may read remaining_jobs() at any instant of a tick
NextObserve == Next \/ SchedReapPolled

SpecObserve == Init /\ [][NextObserve]_vars

\* the orchestrator leaves its poll: it has read remaining_jobs() = 0
PollEnds == orch_pc = "poll" /\ orch_pc' = "join"

\* a submitted job that waits or whose worker lives
Pending(j) == InSeq(j, waiting) \/ process[j] = "alive"

\* C30: the orchestrator never reads remaining_jobs() = 0, and so never stops
\* the scheduler, while a submitted job is waiting or has a live worker: no job
\* waits or runs at the step that ends the poll
C30_NoZeroWhilePending ==
    [][PollEnds => \A j \in Jobs : ~Pending(j)]_vars

====
